---- MODULE Spec2Model ----
(***************************************************************************)
(* Input dispatch and modifier state of the fifi-calculator frontend:      *)
(* the prefix-argument state machine, the modifier delegates, the button   *)
(* grid manager with its manager facade, and the subcommand manager.       *)
(***************************************************************************)
EXTENDS Integers, Sequences, FiniteSets, TLC

\* ------------------------------------------------------------------------
\* Bounds of the model
\* ------------------------------------------------------------------------

\* Largest k of Multiplier(k) the model lets C-u reach in Spec, the whole
\* frontend.
MaxMultiplier == 1

\* Largest k of Multiplier(k) the model lets C-u reach in SpecPrefix, the
\* prefix-argument keys at the root grid.
MaxMultiplierPrefix == 3

\* Largest magnitude of n in Numerical(n) the model lets digits reach in
\* Spec, the whole frontend.
MaxArg == 9

\* Largest magnitude of n in Numerical(n) the model lets digits reach in
\* SpecPrefix, the prefix-argument keys at the root grid.
MaxArgPrefix == 60

\* Largest number of handlers (SubcommandButtonManager.onClick,
\* InputButton.fire) suspended at an await at the same time.
MaxPending == 1

\* Largest maxCacheSize of the LruCache of SpecLru.
MaxCapacity == 2

\* Number of data nodes the LruCache of SpecLru may create, one per set.
MaxNodes == 5

\* Largest number of handlers in the list given to sequential in
\* SpecSequential.
MaxHandlers == 5

\* The calls of getKeyMappingTable on one grid.
MaxCalls == 2

\* The calls of InputBoxManager.show.
MaxSessions == 2

\* The characters typed into the text box.
MaxText == 2

Abs(n) == IF n < 0 THEN -n ELSE n

\* ------------------------------------------------------------------------
\* Values: number | null | undefined
\* ------------------------------------------------------------------------

Undefined == [kind |-> "undefined", value |-> 0]

Null == [kind |-> "null", value |-> 0]

Number(n) == [kind |-> "number", value |-> n]

\* left ?? right
Coalesce(left, right) == IF left.kind = "number" THEN left ELSE right

\* ------------------------------------------------------------------------
\* prefix_argument.ts
\* ------------------------------------------------------------------------

\* The result null of PrefixArgState.onTransition.
NoState == [tag |-> "null", n |-> 0]

DEFAULT_STATE == [tag |-> "Default", n |-> 0]

multiplierState(k) == [tag |-> "Multiplier", n |-> k]

NEGATIVE_INPUT_STATE == [tag |-> "NegativeInput", n |-> 0]

numericalState(n) == [tag |-> "Numerical", n |-> n]

\* The field prefixArgument of each state object.
prefixArgument(s) ==
  CASE s.tag = "Default" -> Null
    [] s.tag = "Multiplier" -> Number(4 * s.n)
    [] s.tag = "NegativeInput" -> Number(-1)
    [] s.tag = "Numerical" -> Number(s.n)

NoTransition == [input |-> "none", argument |-> 0]

\* A variant that takes a plain digit as the first digit of an argument.
DEFAULT_STATE_onTransition_DigitStarts(transition) ==
  CASE transition.input = "C-u" -> multiplierState(1)
    [] transition.input \in {"C-#", "#"} -> numericalState(transition.argument)
    [] transition.input = "C--" -> NEGATIVE_INPUT_STATE
    [] transition.input \in {"Escape", "-"} -> NoState

DEFAULT_STATE_onTransition(transition) ==
  CASE transition.input = "C-u" -> multiplierState(1)
    [] transition.input = "C-#" -> numericalState(transition.argument)
    [] transition.input = "C--" -> NEGATIVE_INPUT_STATE
    [] transition.input \in {"Escape", "#", "-"} -> NoState

\* A variant whose C-u keeps the multiplier.
multiplierState_onTransition_Stuck(k, transition) ==
  CASE transition.input = "C-u" -> multiplierState(k)
    [] transition.input \in {"C-#", "#"} -> numericalState(transition.argument)
    [] transition.input \in {"-", "C--"} -> NEGATIVE_INPUT_STATE
    [] transition.input = "Escape" -> DEFAULT_STATE

multiplierState_onTransition(k, transition) ==
  CASE transition.input = "C-u" -> multiplierState(k + 1)
    [] transition.input \in {"C-#", "#"} -> numericalState(transition.argument)
    [] transition.input \in {"-", "C--"} -> NEGATIVE_INPUT_STATE
    [] transition.input = "Escape" -> DEFAULT_STATE

\* A variant that answers null to Escape.
NEGATIVE_INPUT_STATE_onTransition_NoEscape(transition) ==
  CASE transition.input \in {"C-u", "-", "C--", "Escape"} -> NoState
    [] transition.input \in {"C-#", "#"} -> numericalState(- transition.argument)

NEGATIVE_INPUT_STATE_onTransition(transition) ==
  CASE transition.input \in {"C-u", "-", "C--"} -> NoState
    [] transition.input \in {"C-#", "#"} -> numericalState(- transition.argument)
    [] transition.input = "Escape" -> DEFAULT_STATE

\* A variant that absorbs C-u, - and C-- by answering the state itself.
numericalState_onTransition_Absorb(n, transition) ==
  CASE transition.input \in {"C-u", "-", "C--"} -> numericalState(n)
    [] transition.input \in {"C-#", "#"} -> numericalState(10 * n + transition.argument)
    [] transition.input = "Escape" -> DEFAULT_STATE

numericalState_onTransition(n, transition) ==
  CASE transition.input \in {"C-u", "-", "C--"} -> NoState
    [] transition.input \in {"C-#", "#"} -> numericalState(10 * n + transition.argument)
    [] transition.input = "Escape" -> DEFAULT_STATE

\* this.currentState.onTransition(transition): dispatch on the state object.
StateOnTransition(s, transition) ==
  CASE s.tag = "Default" -> DEFAULT_STATE_onTransition(transition)
    [] s.tag = "Multiplier" -> multiplierState_onTransition(s.n, transition)
    [] s.tag = "NegativeInput" -> NEGATIVE_INPUT_STATE_onTransition(transition)
    [] s.tag = "Numerical" -> numericalState_onTransition(s.n, transition)

\* ------------------------------------------------------------------------
\* prefix_argument/prefix_delegate.ts
\* ------------------------------------------------------------------------

PlainDigitKeys == {"2", "5"}

ModifiedDigitKeys == {"C-2", "M-5", "C-M-2"}

\* +key, and the argument of the C-# cases.
DigitOfKey(key) ==
  CASE key \in {"2", "C-2", "C-M-2"} -> 2
    [] key \in {"5", "M-5"} -> 5

keyToStateTransition(key) ==
  CASE key \in {"C-u", "-", "C--", "Escape"} -> [input |-> key, argument |-> 0]
    [] key \in PlainDigitKeys -> [input |-> "#", argument |-> DigitOfKey(key)]
    [] key \in ModifiedDigitKeys -> [input |-> "C-#", argument |-> DigitOfKey(key)]
    [] OTHER -> NoTransition

\* ------------------------------------------------------------------------
\* button_grid/modifier_delegate.ts
\* ------------------------------------------------------------------------

defaultModifiers ==
  [prefixArgument |-> Undefined, keepModifier |-> FALSE,
   hyperbolicModifier |-> FALSE, inverseModifier |-> FALSE]

\* A variant that combines prefixArgument with ||, to which 0 is absent.
appendModifiers_Truthy(left, right) ==
  [prefixArgument |->
     IF left.prefixArgument.kind = "number" /\ left.prefixArgument.value # 0
     THEN left.prefixArgument ELSE right.prefixArgument,
   keepModifier |-> left.keepModifier \/ right.keepModifier,
   hyperbolicModifier |-> left.hyperbolicModifier \/ right.hyperbolicModifier,
   inverseModifier |-> left.inverseModifier \/ right.inverseModifier]

appendModifiers(left, right) ==
  [prefixArgument |-> Coalesce(left.prefixArgument, right.prefixArgument),
   keepModifier |-> left.keepModifier \/ right.keepModifier,
   hyperbolicModifier |-> left.hyperbolicModifier \/ right.hyperbolicModifier,
   inverseModifier |-> left.inverseModifier \/ right.inverseModifier]

\* argument: modifiers.prefixArgument ?? null
modifiersToRustArgs(modifiers) ==
  [argument |-> Coalesce(modifiers.prefixArgument, Null),
   keepModifier |-> modifiers.keepModifier,
   hyperbolicModifier |-> modifiers.hyperbolicModifier,
   inverseModifier |-> modifiers.inverseModifier]

\* Object.assign(target, source): the own properties of source overwrite
\* those of target.
ObjectAssign(target, source) ==
  [f \in DOMAIN target |-> IF f \in DOMAIN source THEN source[f] ELSE target[f]]

\* The default {} of modifiersOverrides.
NoOverrides == [f \in {} |-> FALSE]

\* ------------------------------------------------------------------------
\* The button grids of the model: a main (root) grid and two subgrids, with
\* one cell of each class the managers distinguish.
\* ------------------------------------------------------------------------

RootGrid == "main"

Grids == {"main", "vector", "transcendental", "storage"}

\* The rows of each grid, in row-major order.
GridCells(grid) ==
  CASE grid = "main" ->
         <<"plus", "numInput", "minus", "gotoVector", "timesI", "gotoTrans",
           "gotoStorage", "times">>
    [] grid = "vector" -> <<"pack", "vreduce", "vaccum", "backVector">>
    [] grid = "transcendental" -> <<"ln", "backTrans">>
    [] grid = "storage" -> <<"storeVar", "backStorage">>

AllCells ==
  UNION {{GridCells(g)[i] : i \in 1..Len(GridCells(g))} : g \in Grids}

\* The class of each cell.
CellKind(cell) ==
  CASE cell \in {"plus", "minus", "timesI", "times", "pack", "ln"} -> "Dispatch"
    [] cell \in {"gotoVector", "gotoTrans", "gotoStorage", "backVector",
                 "backTrans", "backStorage"} -> "Goto"
    [] cell = "storeVar" -> "VariableStore"
    [] cell \in {"vreduce", "vaccum"} -> "SubcommandDispatch"
    [] cell = "numInput" -> "Input"
    [] cell = "spacer" -> "Spacer"

\* commandName of the dispatching cells.
CellCommand(cell) ==
  CASE cell = "plus" -> "+"
    [] cell = "minus" -> "-"
    [] cell = "timesI" -> "*i"
    [] cell = "times" -> "*"
    [] cell = "pack" -> "pack"
    [] cell = "ln" -> "ln"
    [] cell = "vreduce" -> "vreduce"
    [] cell = "vaccum" -> "vaccum"
    [] cell = "storeVar" -> "store_var"
    [] OTHER -> ""

\* The grid a GotoButton's gridFactory yields.
CellTarget(cell) ==
  CASE cell = "gotoVector" -> "vector"
    [] cell = "gotoTrans" -> "transcendental"
    [] cell = "gotoStorage" -> "storage"
    [] cell \in {"backVector", "backTrans", "backStorage"} -> "main"

\* keyboardShortcut; "" stands for null.
keyboardShortcut(cell) ==
  CASE cell = "plus" -> "+"
    [] cell = "minus" -> "-"
    [] cell = "times" -> "*"
    [] cell = "gotoVector" -> "v"
    [] cell = "gotoTrans" -> "f"
    [] cell = "pack" -> "p"
    [] cell = "vreduce" -> "R"
    [] cell = "vaccum" -> "U"
    [] cell = "ln" -> "L"
    [] cell = "gotoStorage" -> "s"
    [] cell = "storeVar" -> "t"
    [] cell \in {"backVector", "backTrans", "backStorage"} -> "Escape"
    [] OTHER -> ""

NoCell == ""

\* ButtonGrid.getKeyMappingTable()[key]: the last cell in row-major order
\* that carries the shortcut, or NoCell for undefined.
getKeyMappingTable(grid, key) ==
  LET cells == GridCells(grid)
      hits == {i \in 1..Len(cells) : keyboardShortcut(cells[i]) = key}
  IN IF hits = {} THEN NoCell ELSE cells[CHOOSE i \in hits : \A j \in hits : j <= i]

\* SUBGRID_FORWARDING_TABLE[key]; "" stands for undefined.
SUBGRID_FORWARDING_TABLE(key) ==
  CASE key = "L" -> "transcendental"
    [] OTHER -> ""

\* The keys of Spec; the flag key H is left to SpecPrefix.
Keys ==
  {"C-u", "-", "C--", "Escape", "2", "C-2", "K", "I",
   "+", "v", "f", "p", "R", "L", "U", "C-/", "D"}

\* The keys of SpecPrefix.
PrefixKeys ==
  {"C-u", "-", "C--", "Escape", "K", "H", "I", "+", "U", "C-/", "D"}
    \cup PlainDigitKeys \cup ModifiedDigitKeys

\* ------------------------------------------------------------------------
\* lru_cache.ts
\* ------------------------------------------------------------------------

LruKeys == {"a", "b", "c"}

\* The result undefined of LruCache.get.
LruUndefined == 0

\* The index of the head node among the nodes.
HeadNode == 0

\* A variant of the constructor without the check of maxCacheSize.
LruCache_Unchecked(maxCacheSize) ==
  [thrown |-> FALSE,
   maxCacheSize |-> maxCacheSize,
   mapping |-> [k \in {} |-> 0],
   nodes |-> [i \in {HeadNode} |->
               [prev |-> HeadNode, next |-> HeadNode, key |-> "", value |-> 0]]]

\* new LruCache(maxCacheSize): an empty mapping and the head node alone.
\* mapping takes a key to the index of its node.
\* With maxCacheSize below 1 the constructor throws and there is no
\* object: thrown, and nothing to call get or set on.
LruCache(maxCacheSize) ==
  IF maxCacheSize < 1
  THEN [thrown |-> TRUE, maxCacheSize |-> 0, mapping |-> [k \in {} |-> 0],
        nodes |-> [i \in {} |-> 0]]
  ELSE [thrown |-> FALSE,
        maxCacheSize |-> maxCacheSize,
        mapping |-> [k \in {} |-> 0],
        nodes |-> [i \in {HeadNode} |->
                    [prev |-> HeadNode, next |-> HeadNode, key |-> "", value |-> 0]]]

\* dataNode(data): a fresh node linked to itself, at the next free index.
dataNode(nodes, key, value) ==
  LET node == Cardinality(DOMAIN nodes)
  IN [i \in DOMAIN nodes \cup {node} |->
        IF i = node THEN [prev |-> node, next |-> node, key |-> key, value |-> value]
        ELSE nodes[i]]

\* insert(prev, elem, next), one assignment after the other.
insert(nodes, prev, elem, next) ==
  LET n1 == [nodes EXCEPT ![elem].prev = prev]
      n2 == [n1 EXCEPT ![elem].next = next]
      n3 == [n2 EXCEPT ![prev].next = elem]
  IN [n3 EXCEPT ![next].prev = elem]

\* remove(elem), one assignment after the other.
remove(nodes, elem) ==
  LET n1 == [nodes EXCEPT ![nodes[elem].prev].next = nodes[elem].next]
      n2 == [n1 EXCEPT ![n1[elem].next].prev = n1[elem].prev]
      n3 == [n2 EXCEPT ![elem].prev = elem]
  IN [n3 EXCEPT ![elem].next = elem]

\* LruCache.moveToHead
moveToHead(c, node) ==
  LET removed == remove(c.nodes, node)
  IN [c EXCEPT !.nodes = insert(removed, HeadNode, node, removed[HeadNode].next)]

\* LruCache.removeLeastRecentlyUsed
removeLeastRecentlyUsed(c) ==
  LET node == c.nodes[HeadNode].prev
  IN IF node # HeadNode
     THEN [c EXCEPT !.nodes = remove(c.nodes, node),
                    !.mapping = [k \in DOMAIN c.mapping \ {c.nodes[node].key} |->
                                  c.mapping[k]]]
     ELSE c

\* LruCache.get: the cache afterwards; LruCache_get_result is what it returns.
LruCache_get(c, key) ==
  IF key \notin DOMAIN c.mapping THEN c ELSE moveToHead(c, c.mapping[key])

LruCache_get_result(c, key) ==
  IF key \notin DOMAIN c.mapping THEN LruUndefined
  ELSE c.nodes[c.mapping[key]].value

\* LruCache.set
LruCache_set(c, key, value) ==
  LET c1 == IF Cardinality(DOMAIN c.mapping) >= c.maxCacheSize
            THEN removeLeastRecentlyUsed(c) ELSE c
      node == Cardinality(DOMAIN c1.nodes)
      c2 == [c1 EXCEPT !.nodes = dataNode(c1.nodes, key, value)]
      c3 == [c2 EXCEPT !.mapping =
              [k \in DOMAIN c2.mapping \cup {key} |->
                 IF k = key THEN node ELSE c2.mapping[k]]]
  IN moveToHead(c3, node)

\* The data nodes met from the head along next, up to the head again.
RECURSIVE ListFrom(_, _, _)
ListFrom(nodes, node, fuel) ==
  IF node = HeadNode \/ fuel = 0 THEN <<>>
  ELSE <<node>> \o ListFrom(nodes, nodes[node].next, fuel - 1)

ListFromHead(c) ==
  ListFrom(c.nodes, c.nodes[HeadNode].next, Cardinality(DOMAIN c.nodes))

\* The key moved to the front of the order of last accesses.
RECURSIVE Without(_, _)
Without(s, key) ==
  IF s = <<>> THEN <<>>
  ELSE IF Head(s) = key THEN Without(Tail(s), key)
  ELSE <<Head(s)>> \o Without(Tail(s), key)

Touch(s, key) == <<key>> \o Without(s, key)

\* ------------------------------------------------------------------------
\* keyboard.ts: KeyInput.  A string is the sequence of its characters.
\* ------------------------------------------------------------------------

Modifier_NONE == 0

Modifier_CTRL == 1

Modifier_META == 2

Modifier_SUPER == 4

\* key.toLowerCase()
toLowerCase(key) ==
  LET charToLowerCase(c) ==
        CASE c = "A" -> "a" [] c = "B" -> "b" [] c = "C" -> "c" [] c = "D" -> "d"
          [] c = "E" -> "e" [] c = "F" -> "f" [] c = "G" -> "g" [] c = "H" -> "h"
          [] c = "I" -> "i" [] c = "J" -> "j" [] c = "K" -> "k" [] c = "L" -> "l"
          [] c = "M" -> "m" [] c = "N" -> "n" [] c = "O" -> "o" [] c = "P" -> "p"
          [] c = "Q" -> "q" [] c = "R" -> "r" [] c = "S" -> "s" [] c = "T" -> "t"
          [] c = "U" -> "u" [] c = "V" -> "v" [] c = "W" -> "w" [] c = "X" -> "x"
          [] c = "Y" -> "y" [] c = "Z" -> "z" [] OTHER -> c
  IN [i \in 1..Len(key) |-> charToLowerCase(key[i])]

\* key in LETTERS: the key is one upper-case letter.
inLETTERS(key) ==
  LET LETTERS ==
        {"A", "B", "C", "D", "E", "F", "G", "H", "I", "J", "K", "L", "M",
         "N", "O", "P", "Q", "R", "S", "T", "U", "V", "W", "X", "Y", "Z"}
  IN Len(key) = 1 /\ key[1] \in LETTERS

\* (k.modifiers & modifier) == modifier, for modifier one of CTRL, META,
\* SUPER.
hasModifier(k, modifier) == (k.modifiers \div modifier) % 2 = 1

\* modifiers | modifier, for modifier one of CTRL, META, SUPER.
BitOr(modifiers, modifier) ==
  IF (modifiers \div modifier) % 2 = 1 THEN modifiers ELSE modifiers + modifier

\* A variant that writes M- before C-.
toEmacsSyntax_MetaFirst(k) ==
  (IF hasModifier(k, Modifier_META) THEN <<"M", "-">> ELSE <<>>)
    \o (IF hasModifier(k, Modifier_CTRL) THEN <<"C", "-">> ELSE <<>>)
    \o (IF hasModifier(k, Modifier_SUPER) THEN <<"s", "-">> ELSE <<>>)
    \o k.key

\* KeyInput.toEmacsSyntax
toEmacsSyntax(k) ==
  (IF hasModifier(k, Modifier_CTRL) THEN <<"C", "-">> ELSE <<>>)
    \o (IF hasModifier(k, Modifier_META) THEN <<"M", "-">> ELSE <<>>)
    \o (IF hasModifier(k, Modifier_SUPER) THEN <<"s", "-">> ELSE <<>>)
    \o k.key

\* A variant that keeps the case of the key.
normalizeSelf_KeepCase(k) ==
  CASE toEmacsSyntax(k) = <<"C", "-", "i">> ->
         [key |-> <<"T", "a", "b">>, modifiers |-> Modifier_NONE]
    [] toEmacsSyntax(k) = <<"C", "-", "m">> ->
         [key |-> <<"E", "n", "t", "e", "r">>, modifiers |-> Modifier_NONE]
    [] OTHER -> k

\* KeyInput.normalizeSelf
normalizeSelf(k) ==
  LET lowered == IF k.modifiers # Modifier_NONE /\ inLETTERS(k.key)
                 THEN [k EXCEPT !.key = toLowerCase(k.key)]
                 ELSE k
  IN CASE toEmacsSyntax(lowered) = <<"C", "-", "i">> ->
            [key |-> <<"T", "a", "b">>, modifiers |-> Modifier_NONE]
       [] toEmacsSyntax(lowered) = <<"C", "-", "m">> ->
            [key |-> <<"E", "n", "t", "e", "r">>, modifiers |-> Modifier_NONE]
       [] OTHER -> lowered

\* new KeyInput(key, modifiers)
KeyInput(key, modifiers) == normalizeSelf([key |-> key, modifiers |-> modifiers])

\* What a call that threw has instead of a KeyInput.
NoKeyInput == [key |-> <<>>, modifiers |-> -1]

\* The loop of KeyInput.fromEmacsSyntax and the construction after it;
\* NoKeyInput when the loop throws.
RECURSIVE fromEmacsSyntax_loop(_, _)
fromEmacsSyntax_loop(input, modifiers) ==
  IF Len(input) >= 2 /\ input[2] = "-"
  THEN CASE input[1] = "C" ->
              fromEmacsSyntax_loop(SubSeq(input, 3, Len(input)),
                                   BitOr(modifiers, Modifier_CTRL))
         [] input[1] = "M" ->
              fromEmacsSyntax_loop(SubSeq(input, 3, Len(input)),
                                   BitOr(modifiers, Modifier_META))
         [] input[1] = "s" ->
              fromEmacsSyntax_loop(SubSeq(input, 3, Len(input)),
                                   BitOr(modifiers, Modifier_SUPER))
         [] OTHER -> NoKeyInput
  ELSE KeyInput(input, modifiers)

\* KeyInput.fromEmacsSyntax
fromEmacsSyntax(input) == fromEmacsSyntax_loop(input, Modifier_NONE)

\* The base key names of the model.
KeyNames ==
  {<<"i">>, <<"m">>, <<"x">>, <<"I">>, <<"M">>, <<"X">>, <<"-">>, <<"5">>,
   <<"T", "a", "b">>, <<"E", "n", "t", "e", "r">>}

\* The prefixes of the grammar for a set of modifiers: C-, M-, s-, in
\* this order.
GrammarPrefix(modifiers) ==
  (IF (modifiers \div 1) % 2 = 1 THEN <<"C", "-">> ELSE <<>>)
    \o (IF (modifiers \div 2) % 2 = 1 THEN <<"M", "-">> ELSE <<>>)
    \o (IF (modifiers \div 4) % 2 = 1 THEN <<"s", "-">> ELSE <<>>)

\* The canonical key strings over KeyNames.
CanonicalStrings ==
  {GrammarPrefix(modifiers) \o name :
     modifiers \in Modifier_NONE..(Modifier_CTRL + Modifier_META + Modifier_SUPER), name \in KeyNames}

\* ------------------------------------------------------------------------
\* State
\* ------------------------------------------------------------------------

VARIABLES
  prefixState,          \* PrefixArgStateMachine._currentState
  keepModifier,         \* ModifierArgumentsManager._keepModifier
  hyperbolicModifier,   \* ModifierArgumentsManager._hyperbolicModifier
  inverseModifier,      \* ModifierArgumentsManager._inverseModifier
  activeGrid,           \* ButtonGridManager.activeGrid
  currentManager,       \* ManagerFacade.currentManager
  pendingSubClicks,     \* number of SubcommandButtonManager.onClick calls suspended at their await
  inputFlow,            \* position of the InputButton.fire call in flight
  entryModifiers,       \* getModifiers() at the last SubcommandDispatchButton.fire
  lastEvent,            \* what the last handler did
  tracked,              \* the promises nobody awaits, and the state at the fire of each call in flight
  cache,                \* an LruCache: maxCacheSize, mapping, and the nodes of its list
  recency,              \* the keys of the cache by their last get hit or set, latest first
  lruEvent,             \* the last call on the cache and its result
  reference,            \* an LRU map given the calls the cache is given: its entries, latest first
  dispatch,             \* a run of sequential(handlers).onKeyDown: the loop and what it has invoked
  operands,             \* three ButtonModifiers and, once combined, their products
  keyCall,              \* a call of KeyInput.fromEmacsSyntax or of new KeyInput, and what came of it
  filterRun,            \* a handler built by filtered(handler, condition), and its last onKeyDown call
  keyGrid,              \* a ButtonGrid: the shortcuts of its rows, buttonsByKey, and its getKeyMappingTable calls
  inputBox              \* the InputBoxManager: its box, its session, the promises of show, and the microtasks of the event loop

\* The variables of the frontend.
frontendVars ==
  <<prefixState, keepModifier, hyperbolicModifier, inverseModifier, activeGrid,
    currentManager, pendingSubClicks, inputFlow, entryModifiers, lastEvent,
    tracked>>

\* The variables of the LruCache.
lruVars == <<cache, recency, lruEvent, reference>>

\* The variables of a run of sequential(handlers).onKeyDown.
seqVars == <<dispatch>>

\* The variables of the calls of pure functions.
pureVars == <<operands, keyCall, filterRun, keyGrid>>

vars == <<frontendVars, lruVars, seqVars, pureVars, inputBox>>

\* The ButtonGridManager as a manager reference.
GridManager ==
  [kind |-> "grid", clicked |-> FALSE, commandName |-> "",
   mainCommandModifiers |-> defaultModifiers]

\* A SubcommandButtonManager built by SubcommandDispatchButton.fire; its
\* parent is the ButtonGridManager, its callback invokes commandName with
\* mainCommandModifiers.  clicked tells the manager objects apart: it is
\* set on the one whose onClick has begun.
SubcommandButtonManager(commandName, mainCommandModifiers) ==
  [kind |-> "sub", clicked |-> FALSE, commandName |-> commandName,
   mainCommandModifiers |-> mainCommandModifiers]

\* What one handler has done so far; every handler starts from NoOutput.
\* invoked lists the key handlers called, in the order of their calls;
\* notifications lists the events of stateChangedSignal; undo lists the
\* directions given to TAURI.performUndoAction.
NoOutput ==
  [response |-> "NONE", sent |-> <<>>, errors |-> <<>>,
   callbackInvoked |-> FALSE, thrown |-> FALSE,
   firedCell |-> NoCell, via |-> "none", behavior |-> "none",
   machineResponse |-> "NONE", machineState |-> NoState,
   unhandled |-> "none", resetIn |-> "none", managerAtReset |-> GridManager,
   handler |-> "none", activated |-> NoCell, completedClick |-> FALSE,
   flowStarted |-> FALSE, invoked |-> <<>>, notifications |-> <<>>,
   undo |-> <<>>]

\* The frontend as one record: the state the handlers read and write,
\* and the output of the running handler.
Cur ==
  [prefixState |-> prefixState, keepModifier |-> keepModifier,
   hyperbolicModifier |-> hyperbolicModifier,
   inverseModifier |-> inverseModifier, activeGrid |-> activeGrid,
   currentManager |-> currentManager, pendingSubClicks |-> pendingSubClicks,
   inputFlow |-> inputFlow, out |-> NoOutput]

\* ------------------------------------------------------------------------
\* PrefixArgStateMachine and the two modifier delegates
\* ------------------------------------------------------------------------

\* A variant that assigns the field without an event.
PrefixArgStateMachine_setCurrentState_Silent(S, newState) ==
  [S EXCEPT !.prefixState = newState]

\* set currentState(newState): the assignment, then one event of
\* stateChangedSignal with the state before and the state after.
PrefixArgStateMachine_setCurrentState(S, newState) ==
  LET oldState == S.prefixState
  IN [S EXCEPT !.prefixState = newState,
               !.out.notifications =
                 Append(@, [type |-> "prefix-arg-state-changed", oldState |-> oldState,
                            newState |-> newState])]

\* PrefixArgStateMachine.onTransition
PrefixArgStateMachine_onTransition(S, transition) ==
  LET newState == StateOnTransition(S.prefixState, transition)
  IN IF newState = NoState
     THEN [S EXCEPT !.out.response = "PASS",
                    !.out.machineResponse = "PASS",
                    !.out.machineState = S.prefixState]
     ELSE [PrefixArgStateMachine_setCurrentState(S, newState)
             EXCEPT !.out.response = "BLOCK",
                    !.out.machineResponse = "BLOCK",
                    !.out.machineState = newState]

PrefixArgumentDelegate_onKeyDown(S, key) ==
  LET transition == keyToStateTransition(key)
      T == [S EXCEPT !.out.invoked = Append(@, "prefix")]
  IN IF transition # NoTransition
     THEN PrefixArgStateMachine_onTransition(T, transition)
     ELSE [T EXCEPT !.out.response = "PASS"]

\* { prefixArgument: this.stateMachine.prefixArgument }; the flags the
\* object lacks read as undefined, which || treats as false.
PrefixArgumentDelegate_getModifiers(S) ==
  [prefixArgument |-> prefixArgument(S.prefixState), keepModifier |-> FALSE,
   hyperbolicModifier |-> FALSE, inverseModifier |-> FALSE]

\* this.stateMachine.currentState = DEFAULT_STATE, through the setter.
PrefixArgumentDelegate_resetModifiers(S) ==
  PrefixArgStateMachine_setCurrentState(S, DEFAULT_STATE)

ModifierFlagsDelegate_getModifiers(S) ==
  ObjectAssign(defaultModifiers,
               [keepModifier |-> S.keepModifier,
                hyperbolicModifier |-> S.hyperbolicModifier,
                inverseModifier |-> S.inverseModifier])

ModifierFlagsDelegate_resetModifiers(S) ==
  [S EXCEPT !.keepModifier = FALSE, !.hyperbolicModifier = FALSE,
            !.inverseModifier = FALSE]

\* A variant whose keys set their flag.
ModifierFlagsDelegate_onKeyDown_Set(S, key) ==
  LET T == [S EXCEPT !.out.invoked = Append(@, "flags")]
  IN CASE key = "K" -> [T EXCEPT !.keepModifier = TRUE, !.out.response = "BLOCK"]
       [] key = "H" -> [T EXCEPT !.hyperbolicModifier = TRUE, !.out.response = "BLOCK"]
       [] key = "I" -> [T EXCEPT !.inverseModifier = TRUE, !.out.response = "BLOCK"]
       [] OTHER -> [T EXCEPT !.out.response = "PASS"]

ModifierFlagsDelegate_onKeyDown(S, key) ==
  LET T == [S EXCEPT !.out.invoked = Append(@, "flags")]
  IN CASE key = "K" -> [T EXCEPT !.keepModifier = ~@, !.out.response = "BLOCK"]
       [] key = "H" -> [T EXCEPT !.hyperbolicModifier = ~@, !.out.response = "BLOCK"]
       [] key = "I" -> [T EXCEPT !.inverseModifier = ~@, !.out.response = "BLOCK"]
       [] OTHER -> [T EXCEPT !.out.response = "PASS"]

\* A variant that folds the modifiers of the last delegate only.
delegates_getModifiers_LastOnly(S) ==
  appendModifiers(defaultModifiers, ModifierFlagsDelegate_getModifiers(S))

\* delegates([prefix delegate, flags delegate]).getModifiers
delegates_getModifiers(S) ==
  appendModifiers(
    appendModifiers(defaultModifiers, PrefixArgumentDelegate_getModifiers(S)),
    ModifierFlagsDelegate_getModifiers(S))

\* A variant that resets the first delegate only.
delegates_resetModifiers_FirstOnly(S) ==
  PrefixArgumentDelegate_resetModifiers(S)

\* delegates([...]).resetModifiers
delegates_resetModifiers(S) ==
  ModifierFlagsDelegate_resetModifiers(PrefixArgumentDelegate_resetModifiers(S))

\* delegates([...]).onKeyDown: Dispatcher.sequential over the two delegates.
delegates_onKeyDown(S, key) ==
  LET first == PrefixArgumentDelegate_onKeyDown(S, key)
  IN IF first.out.response = "BLOCK" THEN first
     ELSE LET second == ModifierFlagsDelegate_onKeyDown(first, key)
          IN IF second.out.response = "BLOCK" THEN second
             ELSE [second EXCEPT !.out.response = "PASS"]

\* ------------------------------------------------------------------------
\* ButtonGridManager, ManagerFacade, SubcommandButtonManager
\* ------------------------------------------------------------------------

isRootGrid(S) == S.activeGrid = RootGrid

\* Which of the three manager states S is in.
ManagerState(S) ==
  IF S.currentManager.kind = "sub" THEN "awaiting"
  ELSE IF isRootGrid(S) THEN "root" ELSE "subgrid"

\* A variant that also resets the modifiers.
ButtonGridManager_setActiveGrid_Resetting(S, grid) ==
  delegates_resetModifiers([S EXCEPT !.activeGrid = grid])

\* ButtonGridManager.setActiveGrid; loadHtml draws the cells of the grid.
ButtonGridManager_setActiveGrid(S, grid) == [S EXCEPT !.activeGrid = grid]

ButtonGridManager_resetModifiers(S) == delegates_resetModifiers(S)

ButtonGridManager_getModifiers(S) == delegates_getModifiers(S)

\* A variant that also hands the clicks and keys back to the
\* ButtonGridManager.
ButtonGridManager_resetState_AlsoManager(S) ==
  LET noted == [S EXCEPT !.out.resetIn = ManagerState(S),
                         !.out.managerAtReset = S.currentManager]
  IN [ButtonGridManager_resetModifiers(
        ButtonGridManager_setActiveGrid(noted, RootGrid))
        EXCEPT !.currentManager = GridManager]

\* ButtonGridManager.resetState; out.resetIn and out.managerAtReset note
\* the manager state the call found.
ButtonGridManager_resetState(S) ==
  LET noted == [S EXCEPT !.out.resetIn = ManagerState(S),
                         !.out.managerAtReset = S.currentManager]
  IN ButtonGridManager_resetModifiers(
       ButtonGridManager_setActiveGrid(noted, RootGrid))

\* ButtonGridManager.setCurrentManager -> ManagerFacade.setCurrentManager
ButtonGridManager_setCurrentManager(S, manager) ==
  [S EXCEPT !.currentManager = manager]

\* TAURI.runMathCommand: the command leaves for the backend.
runMathCommand(S, commandName, args, opts) ==
  [S EXCEPT !.out.sent =
     Append(@, [commandName |-> commandName, args |-> args, opts |-> opts])]

\* A variant that reads no modifiers: the overrides go on top of the
\* identity.
ButtonGridManager_invokeMathCommand_Unmodified(S, commandName, args, modifiersOverrides) ==
  LET modifiers == ObjectAssign(defaultModifiers, modifiersOverrides)
  IN runMathCommand(S, commandName, args, modifiersToRustArgs(modifiers))

ButtonGridManager_invokeMathCommand(S, commandName, args, modifiersOverrides) ==
  LET modifiers == ObjectAssign(ButtonGridManager_getModifiers(S), modifiersOverrides)
  IN runMathCommand(S, commandName, args, modifiersToRustArgs(modifiers))

\* SubcommandButtonManager.invokeMathCommand: throws inside an async
\* function, so the caller gets a rejected promise and nothing is sent.
SubcommandButtonManager_invokeMathCommand(S) == [S EXCEPT !.out.thrown = TRUE]

\* The methods of the manager a cell is handed: "grid" is the
\* ButtonGridManager, "facade" the ManagerFacade, which forwards to its
\* current manager; a SubcommandButtonManager forwards getModifiers,
\* setActiveGrid, resetState and setCurrentManager to its parent, the
\* ButtonGridManager.
Manager_invokeMathCommand(S, manager, commandName, args, modifiersOverrides) ==
  IF manager = "facade" /\ S.currentManager.kind = "sub"
  THEN SubcommandButtonManager_invokeMathCommand(S)
  ELSE ButtonGridManager_invokeMathCommand(S, commandName, args, modifiersOverrides)

Manager_setCurrentManager(S, manager, newManager) ==
  IF manager = "facade" THEN [S EXCEPT !.currentManager = newManager]
  ELSE ButtonGridManager_setCurrentManager(S, newManager)

\* ------------------------------------------------------------------------
\* button_grid/button.ts, button_grid/button/input.ts: the cells
\* ------------------------------------------------------------------------

\* subcommandStr(subcommandId): the JSON text of the SubcommandId, which
\* determines name and options.
subcommandStr(subcommandId) == [json |-> subcommandId]

\* A variant that leaves out manager.resetState().
DispatchButton_fire_NoReset(S, cell, manager) ==
  Manager_invokeMathCommand(S, manager, CellCommand(cell), <<>>, NoOverrides)

DispatchButton_fire(S, cell, manager) ==
  ButtonGridManager_resetState(
    Manager_invokeMathCommand(S, manager, CellCommand(cell), <<>>, NoOverrides))

GotoButton_fire(S, cell, manager) ==
  ButtonGridManager_setActiveGrid(S, CellTarget(cell))

\* A variant that reads the modifiers after manager.resetState().
SubcommandDispatchButton_fire_LateCapture(S, cell, manager) ==
  LET R == ButtonGridManager_resetState(S)
      subcommandManager ==
        SubcommandButtonManager(CellCommand(cell), ButtonGridManager_getModifiers(R))
  IN Manager_setCurrentManager(R, manager, subcommandManager)

SubcommandDispatchButton_fire(S, cell, manager) ==
  LET mainCommandModifiers == ButtonGridManager_getModifiers(S)
      subcommandManager ==
        SubcommandButtonManager(CellCommand(cell), mainCommandModifiers)
  IN ButtonGridManager_resetState(
       Manager_setCurrentManager(S, manager, subcommandManager))

\* InputButton.fire up to its await: the input flow shows the input box.
InputButton_fire(S, cell, manager) ==
  [S EXCEPT !.inputFlow = "prompt", !.out.flowStarted = TRUE]

\* VariableStoreButton.fire: readAndStore is called and not awaited; it
\* runs up to its first await, of TAURI.validateStackSize(1).
VariableStoreButton_fire(S, cell, manager) ==
  [S EXCEPT !.inputFlow = "storeStackSize", !.out.flowStarted = TRUE]

\* A variant of the finally block without manager.resetState().
VariableStoreButton_readAndStore_finally_NoReset(S) ==
  [S EXCEPT !.inputFlow = "none"]

\* The finally block of readAndStore: manager.resetState(), on every way
\* out of the try block.
VariableStoreButton_readAndStore_finally(S) ==
  ButtonGridManager_resetState([S EXCEPT !.inputFlow = "none"])

\* cell.fire(manager)
Cell_fire(S, cell, manager) ==
  LET F == [S EXCEPT !.out.firedCell = cell, !.out.via = manager]
  IN CASE CellKind(cell) = "Dispatch" -> DispatchButton_fire(F, cell, manager)
       [] CellKind(cell) = "Goto" -> GotoButton_fire(F, cell, manager)
       [] CellKind(cell) = "SubcommandDispatch" ->
            SubcommandDispatchButton_fire(F, cell, manager)
       [] CellKind(cell) = "Input" -> InputButton_fire(F, cell, manager)
       [] CellKind(cell) = "VariableStore" ->
            VariableStoreButton_fire(F, cell, manager)
       [] CellKind(cell) = "Spacer" -> F

\* cell.asSubcommand(manager), manager a SubcommandButtonManager, whose
\* getModifiers is its parent's.
asSubcommand(S, cell) ==
  CASE CellKind(cell) = "Dispatch" ->
         [behavior |-> "subcommand",
          subcommand |->
            [name |-> CellCommand(cell),
             options |-> modifiersToRustArgs(ButtonGridManager_getModifiers(S))]]
    [] CellKind(cell) \in {"Goto", "Spacer"} ->
         [behavior |-> "pass", subcommand |-> [name |-> "", options |-> Null]]
    [] CellKind(cell) \in {"SubcommandDispatch", "Input", "VariableStore"} ->
         [behavior |-> "invalid", subcommand |-> [name |-> "", options |-> Null]]

\* A variant that emits nothing.
showError_Silent(S, errorMessage) == S

\* TAURI.showError(errorMessage): the payload of the show-error event.
showError(S, errorMessage) ==
  [S EXCEPT !.out.errors =
     Append(@, [errorMessage |-> "Error: " \o errorMessage])]

\* ButtonGridManager.onClick
ButtonGridManager_onClick(S, cell) == Cell_fire(S, cell, "grid")

\* The callback SubcommandDispatchButton.fire gives its manager.
SubcommandDispatchButton_callback(S, this, subcommandId) ==
  ButtonGridManager_invokeMathCommand(
    [S EXCEPT !.out.callbackInvoked = TRUE],
    this.commandName, <<subcommandStr(subcommandId)>>, this.mainCommandModifiers)

\* A variant that leaves out this.setCurrentManager(this.parent).
SubcommandButtonManager_onClick_StayCurrent(S, cell) ==
  LET this == S.currentManager
      S1 == [S EXCEPT !.currentManager.clicked = TRUE]
      subcommand == asSubcommand(S1, cell)
      S2 == [S1 EXCEPT !.out.behavior = subcommand.behavior]
  IN CASE subcommand.behavior = "pass" ->
            ButtonGridManager_resetState(
              [ButtonGridManager_onClick(S2, cell) EXCEPT
                 !.out.completedClick = TRUE])
       [] subcommand.behavior = "invalid" ->
            [showError(S2, "Invalid subcommand") EXCEPT
               !.pendingSubClicks = @ + 1]
       [] subcommand.behavior = "subcommand" ->
            [SubcommandDispatchButton_callback(S2, this, subcommand.subcommand)
               EXCEPT !.pendingSubClicks = @ + 1]

\* SubcommandButtonManager.onClick up to its await.  "pass" awaits
\* nothing that leaves the event loop, so the finally block runs at once;
\* the other two branches await the backend and leave the finally block
\* to SubClickDone.
SubcommandButtonManager_onClick(S, cell) ==
  LET this == S.currentManager
      S0 == [S EXCEPT !.currentManager.clicked = TRUE]
      S1 == ButtonGridManager_setCurrentManager(S0, GridManager)
      subcommand == asSubcommand(S1, cell)
      S2 == [S1 EXCEPT !.out.behavior = subcommand.behavior]
  IN CASE subcommand.behavior = "pass" ->
            ButtonGridManager_resetState(
              [ButtonGridManager_onClick(S2, cell) EXCEPT
                 !.out.completedClick = TRUE])
       [] subcommand.behavior = "invalid" ->
            [showError(S2, "Invalid subcommand") EXCEPT
               !.pendingSubClicks = @ + 1]
       [] subcommand.behavior = "subcommand" ->
            [SubcommandDispatchButton_callback(S2, this, subcommand.subcommand)
               EXCEPT !.pendingSubClicks = @ + 1]

\* ManagerFacade.onClick
ManagerFacade_onClick(S, cell) ==
  LET T == [S EXCEPT !.out.activated = cell,
                     !.out.invoked = Append(@, "cell")]
  IN IF S.currentManager.kind = "sub"
     THEN SubcommandButtonManager_onClick([T EXCEPT !.out.handler = "sub"], cell)
     ELSE ButtonGridManager_onClick([T EXCEPT !.out.handler = "grid"], cell)

\* MainButtonGrid.onUnhandledKey, called with the ManagerFacade
MainButtonGrid_onUnhandledKey(S, key) ==
  LET forwardingRule == SUBGRID_FORWARDING_TABLE(key)
  IN IF forwardingRule # ""
     THEN [Cell_fire([S EXCEPT !.out.handler = "forward"],
                     getKeyMappingTable(forwardingRule, key), "facade")
             EXCEPT !.out.response = "BLOCK", !.out.unhandled = "forward"]
     ELSE IF key \in PlainDigitKeys
     THEN [S EXCEPT !.out.response = "BLOCK", !.out.unhandled = "numericalInput"]
     ELSE IF key = "Escape"
     THEN [S EXCEPT !.out.response = "BLOCK", !.out.unhandled = "hide"]
     ELSE [S EXCEPT !.out.response = "PASS", !.out.unhandled = "pass"]

\* activeGrid.onUnhandledKey: the subgrids keep ButtonGrid's default.
onUnhandledKey(S, key) ==
  LET T == [S EXCEPT !.out.invoked = Append(@, "unhandledKey")]
  IN IF T.activeGrid = "main" THEN MainButtonGrid_onUnhandledKey(T, key)
     ELSE [T EXCEPT !.out.response = "PASS", !.out.unhandled = "pass"]

\* A variant that offers the key to the delegates whatever grid is active.
ButtonGridManager_onKeyDown_AlwaysDelegates(S, key) ==
  LET G == [S EXCEPT !.out.invoked = Append(@, "grid")]
      D == delegates_onKeyDown(G, key)
  IN IF D.out.response = "BLOCK" THEN D
     ELSE LET button == getKeyMappingTable(D.activeGrid, key)
          IN IF button # NoCell
             THEN [ManagerFacade_onClick(D, button) EXCEPT !.out.response = "BLOCK"]
             ELSE onUnhandledKey(D, key)

\* ButtonGridManager.onKeyDown
ButtonGridManager_onKeyDown(S, key) ==
  LET G == [S EXCEPT !.out.invoked = Append(@, "grid")]
      D == IF isRootGrid(G) THEN delegates_onKeyDown(G, key) ELSE G
  IN IF isRootGrid(G) /\ D.out.response = "BLOCK" THEN D
     ELSE LET button == getKeyMappingTable(D.activeGrid, key)
          IN IF button # NoCell
             THEN [ManagerFacade_onClick(D, button) EXCEPT !.out.response = "BLOCK"]
             ELSE onUnhandledKey(D, key)

\* ------------------------------------------------------------------------
\* UndoManager, InputBoxManager and the key handler of the UiManager
\* ------------------------------------------------------------------------

\* UndoManager.onKeyDown; doUndoAction hands the direction to the backend
\* and is not awaited.
UndoManager_onKeyDown(S, key) ==
  LET T == [S EXCEPT !.out.invoked = Append(@, "undo")]
  IN CASE key \in {"U", "C-/"} ->
            [T EXCEPT !.out.undo = Append(@, "UNDO"), !.out.response = "BLOCK"]
       [] key = "D" ->
            [T EXCEPT !.out.undo = Append(@, "REDO"), !.out.response = "BLOCK"]
       [] OTHER -> [T EXCEPT !.out.response = "PASS"]

\* new InputBoxManager(args): the box is hidden and the session is one
\* that does nothing on resolve and reject, session 0.  futures holds the
\* promise of each call of show, flows the caller awaiting it, microtasks
\* the jobs of the event loop in their order, event the last event given
\* to the box, and issued the commands given to TAURI.runMathCommand since
\* that event began.
InputBoxManager_new ==
  [showing |-> FALSE, text |-> <<>>, inputSession |-> 0, futures |-> <<>>,
   flows |-> <<>>, microtasks |-> <<>>, issued |-> <<>>,
   event |-> [key |-> "", text |-> <<>>, session |-> 0, response |-> "NONE"]]

\* document.activeElement === Page.getInputTextBox(): the text box has
\* the focus while the input box of an input flow is shown.
inputTextBoxFocused(S) == S.inputFlow \in {"prompt", "storeName"}

\* InputBoxManager.onKeyDown: the manager passes while no box is showing
\* and asks the input method of a showing box.  For a key that is neither
\* Escape nor Enter, NumericalInputMethod.onKeyDown absorbs the key into
\* the text box and answers BLOCK, and FreeformInputMethod.onKeyDown
\* answers SOFT_BLOCK.
InputBoxManager_onKeyDown(S, key) ==
  LET T == [S EXCEPT !.out.invoked = Append(@, "inputBox")]
  IN CASE T.inputFlow = "prompt" -> [T EXCEPT !.out.response = "BLOCK"]
       [] T.inputFlow = "storeName" -> [T EXCEPT !.out.response = "SOFT_BLOCK"]
       [] OTHER -> [T EXCEPT !.out.response = "PASS"]

\* filtered(this.inputManager, condition).onKeyDown
filtered_inputManager_onKeyDown(S, key) ==
  IF inputTextBoxFocused(S) THEN InputBoxManager_onKeyDown(S, key)
  ELSE [S EXCEPT !.out.invoked = Append(@, "filtered"), !.out.response = "PASS"]

\* A variant that offers the key to the button grid before the undo
\* manager.
UiManager_keyHandler_GridFirst(S, key) ==
  LET first == filtered_inputManager_onKeyDown(S, key)
  IN IF first.out.response = "BLOCK" THEN first
     ELSE LET second == ButtonGridManager_onKeyDown(first, key)
          IN IF second.out.response = "BLOCK" THEN second
             ELSE LET third == UndoManager_onKeyDown(second, key)
                  IN IF third.out.response = "BLOCK" THEN third
                     ELSE [third EXCEPT !.out.response = "PASS"]

\* UiManager.keyHandler.onKeyDown: sequential over the filtered input
\* manager, the undo manager and the button grid.
UiManager_keyHandler(S, key) ==
  LET first == filtered_inputManager_onKeyDown(S, key)
  IN IF first.out.response = "BLOCK" THEN first
     ELSE LET second == UndoManager_onKeyDown(first, key)
          IN IF second.out.response = "BLOCK" THEN second
             ELSE LET third == ButtonGridManager_onKeyDown(second, key)
                  IN IF third.out.response = "BLOCK" THEN third
                     ELSE [third EXCEPT !.out.response = "PASS"]

\* ------------------------------------------------------------------------
\* Actions: one per handler of the event loop
\* ------------------------------------------------------------------------

\* The grid, the prefix-argument state and the flags of S.
Snapshot(S) ==
  [activeGrid |-> S.activeGrid, prefixState |-> S.prefixState,
   keepModifier |-> S.keepModifier,
   hyperbolicModifier |-> S.hyperbolicModifier,
   inverseModifier |-> S.inverseModifier]

\* No call in flight.
NoSnapshot ==
  [activeGrid |-> "", prefixState |-> NoState, keepModifier |-> FALSE,
   hyperbolicModifier |-> FALSE, inverseModifier |-> FALSE]

\* tracked after the handler that produced S: flow is the state at the
\* fire of the input flow in flight, command the state at the fire of the
\* last DispatchButton whose command is with the backend, and each is
\* disturbed once another handler has run since that fire.
Track(S, op) ==
  LET FlowOps ==
        {"inputSubmit", "inputCancel", "inputFlowDone", "storeStackSizeDone",
         "storeNameSubmit", "storeNameCancel", "storeValidateDone",
         "storeVarDone"}
      dispatched == /\ S.out.firedCell # NoCell
                    /\ CellKind(S.out.firedCell) = "Dispatch"
                    /\ S.out.sent # <<>>
  IN [on |-> TRUE,
      flow |-> IF S.out.flowStarted THEN Snapshot(Cur)
               ELSE IF S.inputFlow = "none" THEN NoSnapshot
               ELSE tracked.flow,
      flowDisturbed |->
        IF S.out.flowStarted \/ S.inputFlow = "none" THEN FALSE
        ELSE tracked.flowDisturbed \/ op \notin FlowOps,
      command |-> IF dispatched THEN Snapshot(Cur)
                  ELSE IF op = "commandSettled" THEN NoSnapshot
                  ELSE tracked.command,
      commandDisturbed |->
        IF dispatched \/ op = "commandSettled" THEN FALSE
        ELSE tracked.command # NoSnapshot
             /\ (tracked.commandDisturbed \/ op # "commandSettled")]

\* The handler ends: its writes become the state, and lastEvent notes
\* what it did.  The first two conjuncts are the bounds of the model, a
\* guard on the handler's result S: at most MaxPending handlers suspended
\* at an await, and one input flow at a time.
Commit(S, op, key, cell, outcome) ==
  /\ S.pendingSubClicks + (IF S.inputFlow = "none" THEN 0 ELSE 1) <= MaxPending
  /\ S.out.flowStarted => inputFlow = "none"
  /\ prefixState' = S.prefixState
  /\ keepModifier' = S.keepModifier
  /\ hyperbolicModifier' = S.hyperbolicModifier
  /\ inverseModifier' = S.inverseModifier
  /\ activeGrid' = S.activeGrid
  /\ currentManager' = S.currentManager
  /\ pendingSubClicks' = S.pendingSubClicks
  /\ inputFlow' = S.inputFlow
  /\ entryModifiers' =
       IF S.currentManager.kind # "sub" THEN defaultModifiers
       ELSE IF S.out.firedCell # NoCell
               /\ CellKind(S.out.firedCell) = "SubcommandDispatch"
            THEN delegates_getModifiers(Cur)
            ELSE entryModifiers
  /\ lastEvent' =
       [op |-> op, key |-> key, cell |-> cell, outcome |-> outcome, out |-> S.out]
  /\ tracked' = IF tracked.on THEN Track(S, op) ELSE tracked
  /\ UNCHANGED <<lruVars, seqVars, pureVars, inputBox>>

\* The frontend after its construction, the promises nobody awaits
\* followed or not.
FrontendInitTracking(on) ==
  /\ prefixState = DEFAULT_STATE
  /\ keepModifier = FALSE
  /\ hyperbolicModifier = FALSE
  /\ inverseModifier = FALSE
  /\ activeGrid = RootGrid
  /\ currentManager = GridManager
  /\ pendingSubClicks = 0
  /\ inputFlow = "none"
  /\ entryModifiers = defaultModifiers
  /\ lastEvent =
       [op |-> "init", key |-> "", cell |-> NoCell, outcome |-> "none",
        out |-> NoOutput]
  /\ tracked = [on |-> on, flow |-> NoSnapshot, flowDisturbed |-> FALSE,
                command |-> NoSnapshot, commandDisturbed |-> FALSE]
  /\ inputBox = InputBoxManager_new

\* The frontend after its construction.
FrontendInit == FrontendInitTracking(FALSE)

\* An LruCache after its construction with maxCacheSize.
LruInit(maxCacheSize) ==
  /\ cache = LruCache(maxCacheSize)
  /\ recency = <<>>
  /\ lruEvent = [op |-> "new", key |-> "", value |-> maxCacheSize,
                 result |-> LruUndefined]
  /\ reference = <<>>

\* sequential(handlers).onKeyDown(input) is called: the loop is before
\* its first handler.  A handler stands in the list as the response it
\* gives to the input.
SeqInit(handlers) ==
  dispatch = [handlers |-> handlers, next |-> 1, invoked |-> <<>>, result |-> "NONE"]

\* Three ButtonModifiers that nothing has combined yet.
OperandsInit(left, middle, right) ==
  operands = [left |-> left, middle |-> middle, right |-> right,
              combined |-> FALSE,
              leftMiddle |-> defaultModifiers, middleRight |-> defaultModifiers,
              leftFirst |-> defaultModifiers, rightFirst |-> defaultModifiers,
              identityLeft |-> defaultModifiers,
              leftIdentity |-> defaultModifiers]

\* fromEmacsSyntax(input), or new KeyInput(key, modifiers), is called.
KeyCallInit(call, input, key, modifiers) ==
  keyCall = [call |-> call, input |-> input, key |-> key, modifiers |-> modifiers,
             position |-> "called", object |-> NoKeyInput, output |-> <<>>]

\* filtered(handler, condition) has returned its handler.  condition
\* stands as the set of inputs it holds of, handler as the response it
\* gives to each input.
FilterInit(handler, condition) ==
  filterRun = [handler |-> handler, condition |-> condition, input |-> "",
               invoked |-> <<>>, result |-> "NONE"]

\* A ButtonGrid after its construction: rows holds the keyboardShortcut of
\* each cell, "" for null; buttonsByKey is null.  A table takes a
\* shortcut to the row and column of its cell; tables counts the table
\* objects made, and a table is known by its number.
KeyGridInit(rows) ==
  keyGrid = [rows |-> rows,
             buttonsByKey |-> [null |-> TRUE, table |-> 0, cells |-> <<>>],
             tables |-> 0, calls |-> 0, warnings |-> <<>>,
             returned |-> [null |-> TRUE, table |-> 0, cells |-> <<>>]]

\* No call of a pure function is under way.
PureInit ==
  /\ OperandsInit(defaultModifiers, defaultModifiers, defaultModifiers)
  /\ KeyCallInit("none", <<>>, <<>>, Modifier_NONE)
  /\ FilterInit([input \in {} |-> "PASS"], {})
  /\ KeyGridInit(<<>>)

Init == FrontendInit /\ LruInit(1) /\ SeqInit(<<>>) /\ PureInit

\* A key event: dispatchOnKey gives it to UiManager.keyHandler.  Escape
\* and Enter in a showing input box are its cancellation and submission
\* (InputCancel, InputSubmit, StoreNameCancel, StoreNameSubmit); any other
\* key typed in the numerical box is absorbed by the box and changes
\* nothing here, and any other key typed in the box of the variable name
\* is a key event of its own.
KeyDown(key, maxMultiplier, maxArg) ==
  /\ inputFlow # "prompt"
  /\ inputFlow = "storeName" => key \notin {"Escape", "Enter"}
  /\ LET S == UiManager_keyHandler(Cur, key)
     IN /\ S.prefixState.tag = "Multiplier" => S.prefixState.n <= maxMultiplier
        /\ S.prefixState.tag = "Numerical" => Abs(S.prefixState.n) <= maxArg
        /\ Commit(S, "key", key, NoCell, "none")

\* A click on the button of a cell of the active grid: the listener calls
\* manager.onClick(cell) on the ManagerFacade.
Click(cell) ==
  /\ ~inputTextBoxFocused(Cur)
  /\ \E i \in 1..Len(GridCells(activeGrid)) : GridCells(activeGrid)[i] = cell
  /\ Commit(ManagerFacade_onClick(Cur, cell), "click", "", cell, "none")

\* The promise a SubcommandButtonManager.onClick awaits settles: its
\* finally block runs this.resetState().
SubClickDone(outcome) ==
  /\ pendingSubClicks > 0
  /\ Commit(ButtonGridManager_resetState(
              [Cur EXCEPT !.pendingSubClicks = @ - 1,
                          !.out.completedClick = TRUE]),
            "subClickDone", "", NoCell, outcome)

\* The user submits the input box: numericalInputToStack sends push_number
\* and InputButton.fire goes on waiting for the backend.
InputSubmit ==
  /\ inputFlow = "prompt"
  /\ Commit(runMathCommand([Cur EXCEPT !.inputFlow = "backend"], "push_number",
                           <<"text">>, modifiersToRustArgs(defaultModifiers)),
            "inputSubmit", "", NoCell, "none")

\* The input box is cancelled or loses the focus: the flow ends without a
\* command and InputButton.fire calls manager.resetState().
InputCancel ==
  /\ inputFlow = "prompt"
  /\ Commit(ButtonGridManager_resetState([Cur EXCEPT !.inputFlow = "none"]),
            "inputCancel", "", NoCell, "none")

\* The backend settles push_number.  When the promise is resolved,
\* InputButton.fire calls manager.resetState(); when it is rejected, the
\* await in fire throws and fire ends without the call.
InputFlowDone(outcome) ==
  /\ inputFlow = "backend"
  /\ Commit(IF outcome = "resolved"
            THEN ButtonGridManager_resetState([Cur EXCEPT !.inputFlow = "none"])
            ELSE [Cur EXCEPT !.inputFlow = "none", !.out.thrown = TRUE],
            "inputFlowDone", "", NoCell, outcome)

Outcomes == {"resolved", "rejected"}

\* The clicks of Spec leave the storage grid to SpecFlow.
Next ==
  \/ \E key \in Keys : KeyDown(key, MaxMultiplier, MaxArg)
  \/ \E cell \in AllCells \ {"gotoStorage", "storeVar", "backStorage", "times"} :
       Click(cell)
  \/ \E outcome \in Outcomes : SubClickDone(outcome)
  \/ InputSubmit
  \/ InputCancel
  \/ \E outcome \in Outcomes : InputFlowDone(outcome)

Spec == Init /\ [][Next]_vars

\* The prefix-argument and flag keys at the root grid, with two-digit
\* arguments.
SpecPrefix ==
  Init /\ [][\E key \in PrefixKeys :
               KeyDown(key, MaxMultiplierPrefix, MaxArgPrefix)]_vars

\* ------------------------------------------------------------------------
\* The input flow of the VariableStoreButton and the commands nobody awaits
\* ------------------------------------------------------------------------

\* TAURI.validateStackSize(1) settles: readAndStore goes on to
\* variableNameInput, which shows the input box, or leaves through its
\* finally block.
StoreStackSizeDone(result) ==
  /\ inputFlow = "storeStackSize"
  /\ Commit(CASE result = "valid" -> [Cur EXCEPT !.inputFlow = "storeName"]
              [] result = "invalid" -> VariableStoreButton_readAndStore_finally(Cur)
              [] result = "rejected" ->
                   VariableStoreButton_readAndStore_finally(
                     [Cur EXCEPT !.out.thrown = TRUE]),
            "storeStackSizeDone", "", NoCell, result)

\* The user submits a name: variableNameInput awaits
\* TAURI.validateValue(text, Validator.VARIABLE).
StoreNameSubmit ==
  /\ inputFlow = "storeName"
  /\ Commit([Cur EXCEPT !.inputFlow = "storeValidate"],
            "storeNameSubmit", "", NoCell, "none")

\* The input box is cancelled: variableNameInput returns undefined and
\* readAndStore leaves through its finally block.
StoreNameCancel ==
  /\ inputFlow = "storeName"
  /\ Commit(VariableStoreButton_readAndStore_finally(Cur),
            "storeNameCancel", "", NoCell, "none")

\* TAURI.validateValue settles: with a valid name readAndStore calls
\* manager.invokeMathCommand('store_var', [variableName], override) and
\* awaits it; otherwise it leaves through its finally block.
StoreValidateDone(result) ==
  /\ inputFlow = "storeValidate"
  /\ Commit(CASE result = "valid" ->
                   ButtonGridManager_invokeMathCommand(
                     [Cur EXCEPT !.inputFlow = "storeVar"], "store_var",
                     <<"variableName">>, NoOverrides)
              [] result = "invalid" -> VariableStoreButton_readAndStore_finally(Cur)
              [] result = "rejected" ->
                   VariableStoreButton_readAndStore_finally(
                     [Cur EXCEPT !.out.thrown = TRUE]),
            "storeValidateDone", "", NoCell, result)

\* The backend settles store_var: the finally block runs either way.
StoreVarDone(outcome) ==
  /\ inputFlow = "storeVar"
  /\ Commit(VariableStoreButton_readAndStore_finally(
              [Cur EXCEPT !.out.thrown = (outcome = "rejected")]),
            "storeVarDone", "", NoCell, outcome)

\* The promise of the command a DispatchButton sent settles: fire did not
\* await it, so no code of the frontend runs.
CommandSettled(outcome) ==
  /\ tracked.command # NoSnapshot
  /\ Commit(Cur, "commandSettled", "", NoCell, outcome)

InitFlow == FrontendInitTracking(TRUE) /\ LruInit(1) /\ SeqInit(<<>>) /\ PureInit

\* The keys of SpecFlow: a prefix argument, a flag, the way into two
\* subgrids, and a cell of each kind that sends a command.
SpecFlow ==
  /\ InitFlow
  /\ [][\/ \E key \in {"C-2", "K", "+", "v", "p", "s", "t", "U"} :
             KeyDown(key, MaxMultiplier, MaxArg)
        \/ \E cell \in {"numInput", "backStorage"} : Click(cell)
        \/ InputSubmit
        \/ InputCancel
        \/ \E outcome \in Outcomes : InputFlowDone(outcome)
        \/ \E result \in {"valid", "invalid", "rejected"} : StoreStackSizeDone(result)
        \/ StoreNameSubmit
        \/ StoreNameCancel
        \/ \E result \in {"valid", "invalid", "rejected"} : StoreValidateDone(result)
        \/ \E outcome \in Outcomes : StoreVarDone(outcome)
        \/ \E outcome \in Outcomes : CommandSettled(outcome)]_vars

\* ------------------------------------------------------------------------
\* An LruCache under any calls of get and set
\* ------------------------------------------------------------------------

\* cache.get(key).  The reference map moves the entry of a key it holds
\* to the front.
LruGet(key) ==
  /\ ~cache.thrown
  /\ cache' = LruCache_get(cache, key)
  /\ recency' = IF key \in DOMAIN cache.mapping THEN Touch(recency, key) ELSE recency
  /\ lruEvent' = [op |-> "get", key |-> key, value |-> 0,
                  result |-> LruCache_get_result(cache, key)]
  /\ reference' =
       LET hits == {i \in 1..Len(reference) : reference[i].key = key}
           others == SelectSeq(reference, LAMBDA entry : entry.key # key)
       IN IF hits = {} THEN reference
          ELSE <<reference[CHOOSE i \in hits : TRUE]>> \o others
  /\ UNCHANGED <<frontendVars, seqVars, pureVars, inputBox>>

\* cache.set(key, value); the model allots MaxNodes data nodes.  The
\* reference map puts the entry first and drops its last entry when it
\* holds more than maxCacheSize.
LruSet(key, value) ==
  /\ ~cache.thrown
  /\ Cardinality(DOMAIN cache.nodes) <= MaxNodes
  /\ cache' = LruCache_set(cache, key, value)
  /\ recency' = Touch(recency, key)
  /\ lruEvent' = [op |-> "set", key |-> key, value |-> value, result |-> LruUndefined]
  /\ reference' =
       LET others == SelectSeq(reference, LAMBDA entry : entry.key # key)
           entries == <<[key |-> key, value |-> value]>> \o others
       IN IF Len(entries) > cache.maxCacheSize
          THEN SubSeq(entries, 1, cache.maxCacheSize) ELSE entries
  /\ UNCHANGED <<frontendVars, seqVars, pureVars, inputBox>>

InitLru ==
  /\ FrontendInit
  /\ \E maxCacheSize \in 1..MaxCapacity : LruInit(maxCacheSize)
  /\ SeqInit(<<>>)
  /\ PureInit

SpecLru ==
  /\ InitLru
  /\ [][\/ \E key \in LruKeys : LruGet(key)
        \/ \E key \in LruKeys, value \in {1, 2} : LruSet(key, value)]_vars

\* new LruCache(maxCacheSize) with any maxCacheSize from -1 up, and the
\* calls that follow a construction that returned.
InitLruAny ==
  /\ FrontendInit
  /\ \E maxCacheSize \in (-1)..MaxCapacity : LruInit(maxCacheSize)
  /\ SeqInit(<<>>)
  /\ PureInit

SpecLruAny ==
  /\ InitLruAny
  /\ [][\/ \E key \in {"a", "b"} : LruGet(key)
        \/ \E key \in {"a", "b"} : LruSet(key, 1)]_vars

\* ------------------------------------------------------------------------
\* keyboard/dispatcher.ts: a run of sequential(handlers).onKeyDown
\* ------------------------------------------------------------------------

KeyResponses == {"PASS", "BLOCK", "SOFT_BLOCK"}

\* A variant that goes on to the next handler after a BLOCK.
sequential_iteration_NoShortCircuit(d) ==
  [d EXCEPT !.invoked = Append(@, d.next), !.next = @ + 1]

\* One iteration of the for loop: the handler is invoked and awaited, and
\* a BLOCK is returned at once.
sequential_iteration(d) ==
  LET response == d.handlers[d.next]
      called == [d EXCEPT !.invoked = Append(@, d.next)]
  IN IF response = "BLOCK" THEN [called EXCEPT !.result = response]
     ELSE [called EXCEPT !.next = @ + 1]

\* The loop takes its next handler.
SeqInvoke ==
  /\ dispatch.result = "NONE"
  /\ dispatch.next <= Len(dispatch.handlers)
  /\ dispatch' = sequential_iteration(dispatch)
  /\ UNCHANGED <<frontendVars, lruVars, pureVars, inputBox>>

\* The loop has run out of handlers: return KeyResponse.PASS.
SeqReturnPass ==
  /\ dispatch.result = "NONE"
  /\ dispatch.next > Len(dispatch.handlers)
  /\ dispatch' = [dispatch EXCEPT !.result = "PASS"]
  /\ UNCHANGED <<frontendVars, lruVars, pureVars, inputBox>>

InitSequential ==
  /\ FrontendInit
  /\ LruInit(1)
  /\ \E n \in 0..MaxHandlers : \E handlers \in [1..n -> KeyResponses] :
       SeqInit(handlers)
  /\ PureInit

SpecSequential == InitSequential /\ [][SeqInvoke \/ SeqReturnPass]_vars

\* ------------------------------------------------------------------------
\* appendModifiers on any three ButtonModifiers
\* ------------------------------------------------------------------------

\* The values of the interface ButtonModifiers.
ButtonModifiers ==
  [prefixArgument : {Undefined, Number(0), Number(4), Number(-1)},
   keepModifier : BOOLEAN,
   hyperbolicModifier : BOOLEAN, inverseModifier : BOOLEAN]

\* The products of the three operands, and of each side of the left
\* operand with defaultModifiers().
Combine ==
  /\ ~operands.combined
  /\ operands' =
       [operands EXCEPT
          !.combined = TRUE,
          !.leftMiddle = appendModifiers(operands.left, operands.middle),
          !.middleRight = appendModifiers(operands.middle, operands.right),
          !.leftFirst =
            appendModifiers(appendModifiers(operands.left, operands.middle),
                            operands.right),
          !.rightFirst =
            appendModifiers(operands.left,
                            appendModifiers(operands.middle, operands.right)),
          !.identityLeft = appendModifiers(defaultModifiers, operands.left),
          !.leftIdentity = appendModifiers(operands.left, defaultModifiers)]
  /\ UNCHANGED <<frontendVars, lruVars, seqVars, keyCall, filterRun, keyGrid, inputBox>>

InitMonoid ==
  /\ FrontendInit
  /\ LruInit(1)
  /\ SeqInit(<<>>)
  /\ \E left, middle, right \in ButtonModifiers : OperandsInit(left, middle, right)
  /\ KeyCallInit("none", <<>>, <<>>, Modifier_NONE)
  /\ FilterInit([input \in {} |-> "PASS"], {})
  /\ KeyGridInit(<<>>)

SpecMonoid == InitMonoid /\ [][Combine]_vars

\* ------------------------------------------------------------------------
\* KeyInput: construction, parsing and printing
\* ------------------------------------------------------------------------

\* The call returns its KeyInput.
KeyConstruct ==
  /\ keyCall.position = "called"
  /\ LET object == IF keyCall.call = "fromEmacsSyntax"
                   THEN fromEmacsSyntax(keyCall.input)
                   ELSE KeyInput(keyCall.key, keyCall.modifiers)
     IN /\ object # NoKeyInput
        /\ keyCall' = [keyCall EXCEPT !.position = "constructed", !.object = object]
  /\ UNCHANGED <<frontendVars, lruVars, seqVars, operands, filterRun, keyGrid, inputBox>>

\* KeyInput.fromEmacsSyntax throws `Invalid modifier`.
KeyThrow ==
  /\ keyCall.position = "called"
  /\ keyCall.call = "fromEmacsSyntax"
  /\ fromEmacsSyntax(keyCall.input) = NoKeyInput
  /\ keyCall' = [keyCall EXCEPT !.position = "thrown"]
  /\ UNCHANGED <<frontendVars, lruVars, seqVars, operands, filterRun, keyGrid, inputBox>>

\* toEmacsSyntax() on the KeyInput the call returned.
KeyToEmacsSyntax ==
  /\ keyCall.position = "constructed"
  /\ keyCall' = [keyCall EXCEPT !.position = "printed",
                                !.output = toEmacsSyntax(keyCall.object)]
  /\ UNCHANGED <<frontendVars, lruVars, seqVars, operands, filterRun, keyGrid, inputBox>>

InitKeyInput ==
  /\ FrontendInit
  /\ LruInit(1)
  /\ SeqInit(<<>>)
  /\ OperandsInit(defaultModifiers, defaultModifiers, defaultModifiers)
  /\ FilterInit([input \in {} |-> "PASS"], {})
  /\ KeyGridInit(<<>>)
  /\ \/ \E input \in CanonicalStrings
                      \cup {<<"x", "-", "i">>, <<"C", "-", "S", "-", "m">>} :
          KeyCallInit("fromEmacsSyntax", input, <<>>, Modifier_NONE)
     \/ \E key \in KeyNames, modifiers \in Modifier_NONE..(Modifier_CTRL + Modifier_META + Modifier_SUPER) :
          KeyCallInit("new", <<>>, key, modifiers)

SpecKeyInput ==
  InitKeyInput /\ [][KeyConstruct \/ KeyThrow \/ KeyToEmacsSyntax]_vars

\* ------------------------------------------------------------------------
\* Properties
\* ------------------------------------------------------------------------

\* C1: once a negative number is being typed (NegativeInput, or
\* Numerical(n) with n < 0), every further digit d extends its magnitude:
\* the machine goes to Numerical(-(10 * |n| + d)), so that C--, 5, 2 ends
\* in Numerical(-52).
C1_NegativeDigitsExtend ==
  [][(/\ lastEvent'.op = "key"
      /\ keyToStateTransition(lastEvent'.key).input \in {"#", "C-#"}
      /\ \/ prefixState = NEGATIVE_INPUT_STATE
         \/ prefixState.tag = "Numerical" /\ prefixState.n < 0)
     => /\ lastEvent'.out.machineResponse = "BLOCK"
        /\ prefixState' =
             numericalState(-(10 * Abs(prefixState.n)
                              + keyToStateTransition(lastEvent'.key).argument))]_vars

\* C2, as stated: in NegativeInput and in every Numerical(n), each of C-u,
\* - and C-- is consumed: onTransition answers BLOCK and the state of the
\* machine is unchanged.
C2_SignKeysConsumed ==
  [][(/\ lastEvent'.op = "key"
      /\ lastEvent'.key \in {"C-u", "-", "C--"}
      /\ prefixState.tag \in {"NegativeInput", "Numerical"})
     => /\ lastEvent'.out.machineResponse = "BLOCK"
        /\ lastEvent'.out.machineState = prefixState]_vars

\* C2, amended: in NegativeInput and in every Numerical(n), each of C-u,
\* - and C-- is passed on: onTransition answers PASS and leaves the state
\* of the machine as it was, and the key goes on to the button grid, which
\* fires the cell the key is the shortcut of, if there is one.
C2_SignKeysPassThrough ==
  [][(/\ lastEvent'.op = "key"
      /\ lastEvent'.key \in {"C-u", "-", "C--"}
      /\ prefixState.tag \in {"NegativeInput", "Numerical"})
     => /\ lastEvent'.out.machineResponse = "PASS"
        /\ lastEvent'.out.machineState = prefixState
        /\ lastEvent'.out.firedCell = getKeyMappingTable(activeGrid, lastEvent'.key)]_vars

\* The key - has passed the machine in a Numerical state and has fired the
\* subtraction cell with the argument typed.
C2_Witness ==
  /\ lastEvent.op = "key"
  /\ lastEvent.key = "-"
  /\ lastEvent.out.machineResponse = "PASS"
  /\ lastEvent.out.machineState.tag = "Numerical"
  /\ lastEvent.out.firedCell = "minus"

\* C3: whenever a DispatchButton cell has fired, by key or by click, the
\* event ends in the reset state: the prefix-argument state is Default
\* (prefixArgument null), the three flags are false and the root grid is
\* active.
C3_DispatchEndsReset ==
  (lastEvent.out.firedCell # NoCell /\ CellKind(lastEvent.out.firedCell) = "Dispatch")
  => /\ prefixState = DEFAULT_STATE
     /\ prefixArgument(prefixState) = Null
     /\ ~keepModifier
     /\ ~hyperbolicModifier
     /\ ~inverseModifier
     /\ activeGrid = RootGrid

\* A DispatchButton of a subgrid has fired by its key with a prefix
\* argument and the keep flag in effect.
C3_Witness ==
  /\ lastEvent.op = "key"
  /\ lastEvent.out.firedCell = "pack"
  /\ Len(lastEvent.out.sent) = 1
  /\ lastEvent.out.sent[1].opts.argument.kind = "number"
  /\ lastEvent.out.sent[1].opts.keepModifier

\* C4: the options of the command a DispatchButton sends are the prefix
\* argument and the three flags in effect when the cell fired, read before
\* the reset of the same fire; the command goes out once, unless the cell
\* was handed a manager that refuses to send.
C4_OptionsAtFire ==
  [][(lastEvent'.out.firedCell # NoCell
      /\ CellKind(lastEvent'.out.firedCell) = "Dispatch")
     => LET inEffect ==
              [argument |-> prefixArgument(prefixState),
               keepModifier |-> keepModifier,
               hyperbolicModifier |-> hyperbolicModifier,
               inverseModifier |-> inverseModifier]
        IN IF lastEvent'.out.thrown
           THEN lastEvent'.out.sent = <<>>
           ELSE lastEvent'.out.sent =
                  <<[commandName |-> CellCommand(lastEvent'.out.firedCell),
                     args |-> <<>>, opts |-> inEffect]>>]_vars

\* A DispatchButton has sent its command with a prefix argument and a flag,
\* and the event has ended with the identity modifiers.
C4_Witness ==
  /\ lastEvent.out.firedCell = "plus"
  /\ Len(lastEvent.out.sent) = 1
  /\ lastEvent.out.sent[1].opts.argument.kind = "number"
  /\ lastEvent.out.sent[1].opts.inverseModifier
  /\ prefixState = DEFAULT_STATE
  /\ ~inverseModifier

\* C5, as stated: after SubcommandButtonManager.onClick has completed, in
\* each of its three cases and whether its await resolved or rejected, the
\* current manager of the ManagerFacade is the parent manager.
C5_ParentCurrentAfterClick ==
  lastEvent.out.completedClick => currentManager = GridManager

\* C5, amended: SubcommandButtonManager.onClick hands the clicks and keys
\* back to the parent before anything else, and the manager it ran on is
\* never the current manager again, in each of the three cases and whether
\* the await resolved or rejected; the current manager after it completes
\* is the parent unless a SubcommandDispatchButton fired while onClick was
\* waiting for the backend and installed a new subcommand manager.
C5_ClickedManagerNotCurrent ==
  /\ ~currentManager.clicked
  /\ lastEvent.out.handler = "sub" => currentManager = GridManager
  /\ (lastEvent.out.completedClick /\ currentManager.kind = "sub")
     => lastEvent.op = "subClickDone"

\* An onClick that waited for the backend completes by rejection while a
\* new subcommand manager is installed.
C5_Witness ==
  /\ lastEvent.op = "subClickDone"
  /\ lastEvent.outcome = "rejected"
  /\ lastEvent.out.completedClick
  /\ currentManager.kind = "sub"

\* C6: when a subcommand-capable cell is selected during subcommand entry,
\* the one command sent is the main command with the modifiers in effect
\* when the SubcommandDispatchButton fired as its options, and the
\* modifiers in effect at the selection go into the subcommand identity.
C6_OriginalModifiers ==
  [][lastEvent'.out.callbackInvoked
     => LET atSelection ==
              [argument |-> prefixArgument(prefixState),
               keepModifier |-> keepModifier,
               hyperbolicModifier |-> hyperbolicModifier,
               inverseModifier |-> inverseModifier]
        IN lastEvent'.out.sent =
             <<[commandName |-> currentManager.commandName,
                args |-> <<subcommandStr(
                             [name |-> CellCommand(lastEvent'.out.activated),
                              options |-> atSelection])>>,
                opts |-> modifiersToRustArgs(entryModifiers)]>>]_vars

\* The main command has left with a prefix argument as its options and a
\* subcommand identity that carries other modifiers, the keep flag among
\* them.
C6_Witness ==
  /\ lastEvent.out.callbackInvoked
  /\ Len(lastEvent.out.sent) = 1
  /\ lastEvent.out.sent[1].opts.argument.kind = "number"
  /\ ~lastEvent.out.sent[1].opts.keepModifier
  /\ lastEvent.out.sent[1].args[1].json.options.keepModifier
  /\ lastEvent.out.sent[1].args[1].json.options.argument = Null

\* C7: when the cell selected during subcommand entry declares "pass",
\* the active grid and the modifiers after SubcommandButtonManager.onClick
\* are those that firing the cell on the parent manager produces.
C7_PassFiresAsOnParent ==
  [][lastEvent'.out.behavior = "pass"
     => LET direct ==
              ButtonGridManager_onClick(
                [Cur EXCEPT !.currentManager = GridManager],
                lastEvent'.out.activated)
        IN /\ activeGrid' = direct.activeGrid
           /\ prefixState' = direct.prefixState
           /\ keepModifier' = direct.keepModifier
           /\ hyperbolicModifier' = direct.hyperbolicModifier
           /\ inverseModifier' = direct.inverseModifier]_vars

\* C8: while a SubcommandButtonManager is installed, the Escape key
\* cancels subcommand entry: afterwards the parent manager is current,
\* the callback has not been invoked and no command has been sent.
C8_EscapeCancels ==
  [][(lastEvent'.op = "key" /\ lastEvent'.key = "Escape"
      /\ currentManager.kind = "sub")
     => /\ currentManager' = GridManager
        /\ ~lastEvent'.out.callbackInvoked
        /\ lastEvent'.out.sent = <<>>]_vars

\* C9: when the cell selected during subcommand entry declares "invalid",
\* the error "Invalid subcommand" is shown, the callback is not invoked,
\* no command is sent, no cell fires, and the parent manager is current.
C9_InvalidAborts ==
  lastEvent.out.behavior = "invalid"
  => /\ lastEvent.out.errors = <<[errorMessage |-> "Error: Invalid subcommand"]>>
     /\ ~lastEvent.out.callbackInvoked
     /\ lastEvent.out.sent = <<>>
     /\ lastEvent.out.firedCell = NoCell
     /\ currentManager = GridManager

\* The input cell has been clicked during subcommand entry.
C9_Witness ==
  /\ lastEvent.op = "click"
  /\ lastEvent.cell = "numInput"
  /\ lastEvent.out.handler = "sub"
  /\ lastEvent.out.behavior = "invalid"

\* C10, as stated: resetState() called in any of the three manager states
\* leaves the root grid active, the identity modifiers, and the
\* ButtonGridManager as the current manager.
C10_ResetLeavesRoot ==
  lastEvent.out.resetIn # "none"
  => /\ activeGrid = RootGrid
     /\ delegates_getModifiers(Cur) = defaultModifiers
     /\ currentManager = GridManager

\* C10, amended: resetState() called in any of the three manager states
\* leaves the root grid active and the identity modifiers, and leaves the
\* current manager of the ManagerFacade as it found it: a subcommand
\* manager that was awaiting its subcommand still is.
C10_ResetKeepsManager ==
  lastEvent.out.resetIn # "none"
  => /\ activeGrid = RootGrid
     /\ prefixState = DEFAULT_STATE
     /\ delegates_getModifiers(Cur) = defaultModifiers
     /\ currentManager = lastEvent.out.managerAtReset
     /\ lastEvent.out.resetIn = "awaiting" <=> currentManager.kind = "sub"

\* resetState() has run while a subcommand manager was awaiting its
\* subcommand, called by a handler other than the fire that installed it.
C10_Witness ==
  /\ lastEvent.out.resetIn = "awaiting"
  /\ lastEvent.op \in {"subClickDone", "inputCancel", "inputFlowDone"}
  /\ currentManager.kind = "sub"

\* C11: after any calls of get and set, set calls that overwrite a key
\* among them, the mapping of an LruCache holds at most maxCacheSize keys.
C11_SizeWithinCapacity ==
  Cardinality(DOMAIN cache.mapping) <= cache.maxCacheSize

\* C12: the mapping and the list of an LruCache correspond one to one:
\* every data node met from the head is the node the mapping holds under
\* the node's own key, and every node of the mapping is met from the head
\* exactly once.
C12_MappingMatchesList ==
  LET list == ListFromHead(cache)
  IN /\ \A i \in 1..Len(list) :
          /\ cache.nodes[list[i]].key \in DOMAIN cache.mapping
          /\ cache.mapping[cache.nodes[list[i]].key] = list[i]
     /\ \A k \in DOMAIN cache.mapping :
          Cardinality({i \in 1..Len(list) : list[i] = cache.mapping[k]}) = 1

\* C13: set(key, value) evicts an entry only when the cache is at capacity
\* and key is not present; set on a key that is present overwrites its
\* value, makes it the most recently used, and leaves every other key with
\* its value.
C13_SetEvictsOnlyForNewKey ==
  [][lruEvent'.op = "set"
     => LET key == lruEvent'.key
            ValueOf(c, k) == c.nodes[c.mapping[k]].value
        IN /\ (DOMAIN cache.mapping \ DOMAIN cache'.mapping # {})
              => /\ Cardinality(DOMAIN cache.mapping) >= cache.maxCacheSize
                 /\ key \notin DOMAIN cache.mapping
           /\ key \in DOMAIN cache.mapping
              => /\ key \in DOMAIN cache'.mapping
                 /\ ValueOf(cache', key) = lruEvent'.value
                 /\ cache'.nodes[HeadNode].next = cache'.mapping[key]
                 /\ \A k \in DOMAIN cache.mapping \ {key} :
                      /\ k \in DOMAIN cache'.mapping
                      /\ ValueOf(cache', k) = ValueOf(cache, k)]_vars

\* C14: a get that hits makes its entry the most recently used, and a set
\* that inserts a new key at capacity evicts the one entry whose last
\* access, get hit or set, is the oldest.
C14_EvictsOldestAccess ==
  [][LET key == lruEvent'.key
         Position(k) == CHOOSE i \in 1..Len(recency) : recency[i] = k
         oldest == CHOOSE k \in DOMAIN cache.mapping :
                     \A j \in DOMAIN cache.mapping : Position(j) <= Position(k)
     IN /\ (lruEvent'.op = "get" /\ key \in DOMAIN cache.mapping)
           => /\ cache'.nodes[HeadNode].next = cache'.mapping[key]
              /\ DOMAIN cache'.mapping = DOMAIN cache.mapping
        /\ (/\ lruEvent'.op = "set"
            /\ key \notin DOMAIN cache.mapping
            /\ Cardinality(DOMAIN cache.mapping) >= cache.maxCacheSize)
           => DOMAIN cache'.mapping =
                (DOMAIN cache.mapping \ {oldest}) \cup {key}]_vars

\* C15: sequential(handlers).onKeyDown invokes the handlers in list order,
\* each at most once; the first handler that returns BLOCK ends the run
\* with BLOCK and no later handler is invoked; the result is PASS only
\* after every handler has been invoked and none has returned BLOCK, as
\* when every handler returns PASS.
C15_SequentialShortCircuit ==
  LET invoked == dispatch.invoked
      handlers == dispatch.handlers
  IN /\ invoked = [i \in 1..Len(invoked) |-> i]
     /\ Len(invoked) <= Len(handlers)
     /\ \A i \in 1..Len(invoked) - 1 : handlers[i] # "BLOCK"
     /\ dispatch.result = "BLOCK"
        => Len(invoked) >= 1 /\ handlers[Len(invoked)] = "BLOCK"
     /\ dispatch.result = "PASS"
        => /\ Len(invoked) = Len(handlers)
           /\ \A i \in 1..Len(handlers) : handlers[i] # "BLOCK"
     /\ dispatch.result = "NONE"
        => \A i \in 1..Len(invoked) : handlers[i] # "BLOCK"
     /\ (dispatch.next > Len(handlers) /\ \A i \in 1..Len(handlers) : handlers[i] = "PASS")
        => dispatch.result \in {"NONE", "PASS"}

\* The second of four handlers has ended a run with BLOCK.
C15_Witness ==
  /\ dispatch.result = "BLOCK"
  /\ dispatch.invoked = <<1, 2>>
  /\ Len(dispatch.handlers) = 4

C17_GridKeyDown ==
  [][(lastEvent'.op = "key"
        /\ \E i \in 1..Len(lastEvent'.out.invoked) : lastEvent'.out.invoked[i] = "grid") =>
      LET out == lastEvent'.out
          key == lastEvent'.key
          invoked == out.invoked
          has(stage) == \E i \in 1..Len(invoked) : invoked[i] = stage
          blocked == invoked[Len(invoked)] \in {"prefix", "flags"}
          cell == getKeyMappingTable(activeGrid, key)
      IN /\ has("prefix") <=> activeGrid = RootGrid
         /\ has("flags") => activeGrid = RootGrid
         /\ blocked =>
              /\ out.response = "BLOCK"
              /\ out.activated = NoCell
              /\ out.firedCell = NoCell
              /\ out.unhandled = "none"
              /\ activeGrid' = activeGrid
         /\ (~blocked /\ cell # NoCell) =>
              /\ out.activated = cell
              /\ Cardinality({i \in 1..Len(invoked) : invoked[i] = "cell"}) = 1
              /\ ~has("unhandledKey")
              /\ out.unhandled = "none"
              /\ out.response = "BLOCK"
         /\ (~blocked /\ cell = NoCell) =>
              /\ out.activated = NoCell
              /\ ~has("cell")
              /\ has("unhandledKey")
              /\ out.unhandled # "none"
              /\ activeGrid # RootGrid => out.unhandled = "pass"
              /\ out.response = (IF out.unhandled = "pass" THEN "PASS" ELSE "BLOCK")
         /\ activeGrid # RootGrid =>
              \/ out.resetIn # "none"
              \/ UNCHANGED <<prefixState, keepModifier, hyperbolicModifier,
                             inverseModifier>>]_vars

\* The digit 2 arrives while the vector grid is active and the prefix
\* state is Multiplier(1): no delegate sees it, the grid has no cell for
\* it, and the prefix state stays.
C17_Witness ==
  /\ lastEvent.op = "key"
  /\ lastEvent.key = "2"
  /\ lastEvent.out.invoked = <<"filtered", "undo", "grid", "unhandledKey">>
  /\ lastEvent.out.response = "PASS"
  /\ activeGrid = "vector"
  /\ prefixState = multiplierState(1)

\* C18: C-u in Default leads to Multiplier(1), and C-u in Multiplier(k) to
\* Multiplier(k + 1), each answered BLOCK; so n consecutive C-u from
\* Default lead to Multiplier(n), whose prefixArgument is 4 * n.
C18_ControlUMultiplies ==
  [][(/\ lastEvent'.op = "key"
      /\ lastEvent'.key = "C-u"
      /\ prefixState.tag \in {"Default", "Multiplier"})
     => LET n == (IF prefixState.tag = "Default" THEN 0 ELSE prefixState.n) + 1
        IN /\ prefixState' = multiplierState(n)
           /\ prefixArgument(prefixState') = Number(4 * n)
           /\ lastEvent'.out.machineResponse = "BLOCK"
           /\ lastEvent'.out.response = "BLOCK"]_vars

\* The third C-u in a row has led to Multiplier(3).
C18_Witness ==
  /\ lastEvent.op = "key"
  /\ lastEvent.key = "C-u"
  /\ lastEvent.out.notifications =
       <<[type |-> "prefix-arg-state-changed", oldState |-> multiplierState(2),
          newState |-> multiplierState(3)]>>
  /\ prefixState = multiplierState(3)
  /\ prefixArgument(prefixState) = Number(12)

\* C19: the transition of Escape leads from every state but Default to
\* Default, whose prefixArgument is null, and is answered BLOCK, with the
\* flags and the active grid as they were; in Default it is answered PASS
\* and changes nothing in the machine.
C19_EscapeLeadsToDefault ==
  [][(/\ lastEvent'.op = "key"
      /\ lastEvent'.key = "Escape"
      /\ lastEvent'.out.machineResponse # "NONE")
     => IF prefixState # DEFAULT_STATE
        THEN /\ prefixState' = DEFAULT_STATE
             /\ prefixArgument(prefixState') = Null
             /\ lastEvent'.out.machineResponse = "BLOCK"
             /\ lastEvent'.out.response = "BLOCK"
             /\ UNCHANGED <<keepModifier, hyperbolicModifier, inverseModifier,
                            activeGrid>>
        ELSE /\ prefixState' = DEFAULT_STATE
             /\ lastEvent'.out.machineResponse = "PASS"
             /\ lastEvent'.out.machineState = DEFAULT_STATE
             /\ lastEvent'.out.notifications = <<>>]_vars

\* Escape has led from NegativeInput to Default and has kept the flag K.
C19_Witness ==
  /\ lastEvent.op = "key"
  /\ lastEvent.key = "Escape"
  /\ lastEvent.out.machineResponse = "BLOCK"
  /\ lastEvent.out.notifications =
       <<[type |-> "prefix-arg-state-changed", oldState |-> NEGATIVE_INPUT_STATE,
          newState |-> DEFAULT_STATE]>>
  /\ prefixState = DEFAULT_STATE
  /\ keepModifier

\* C20: PrefixArgStateMachine.onTransition answers BLOCK exactly when the
\* transition function of the current state returns a state, and then
\* emits exactly one notification, with oldState the state before and
\* newState the state after; when the function returns null it answers
\* PASS, keeps the state and emits nothing.  A handler that calls
\* resetModifiers emits exactly one notification, with newState Default,
\* also when the state was Default already.
C20_OneNotificationPerChange ==
  [][(lastEvent'.op # "init") =>
      LET out == lastEvent'.out
          transition == keyToStateTransition(lastEvent'.key)
          consulted == out.machineResponse # "NONE"
          state == IF consulted THEN StateOnTransition(prefixState, transition)
                   ELSE NoState
      IN /\ consulted <=>
              /\ lastEvent'.op = "key"
              /\ transition # NoTransition
              /\ \E i \in 1..Len(out.invoked) : out.invoked[i] = "prefix"
         /\ consulted => (out.machineResponse = "BLOCK" <=> state # NoState)
         /\ out.machineResponse = "BLOCK" =>
              /\ prefixState' = state
              /\ out.notifications =
                   <<[type |-> "prefix-arg-state-changed",
                      oldState |-> prefixState, newState |-> prefixState']>>
         /\ out.machineResponse = "PASS" =>
              /\ out.machineState = prefixState
              /\ out.resetIn = "none" =>
                   /\ prefixState' = prefixState
                   /\ out.notifications = <<>>
         /\ (out.machineResponse # "BLOCK" /\ out.resetIn # "none") =>
              /\ prefixState' = DEFAULT_STATE
              /\ out.notifications =
                   <<[type |-> "prefix-arg-state-changed",
                      oldState |-> prefixState, newState |-> DEFAULT_STATE]>>
         /\ (out.machineResponse = "NONE" /\ out.resetIn = "none") =>
              /\ prefixState' = prefixState
              /\ out.notifications = <<>>]_vars

\* The transition of C-2 has led from Multiplier(1) to Numerical(2) with
\* one notification.
C20_Witness ==
  /\ lastEvent.op = "key"
  /\ lastEvent.key = "C-2"
  /\ lastEvent.out.machineResponse = "BLOCK"
  /\ lastEvent.out.notifications =
       <<[type |-> "prefix-arg-state-changed", oldState |-> multiplierState(1),
          newState |-> numericalState(2)]>>
  /\ prefixState = numericalState(2)

\* C21: ButtonModifiers with appendModifiers is a monoid.  For all
\* ButtonModifiers left, middle and right: defaultModifiers() combined
\* with left on either side gives left; combining left with middle first
\* or middle with right first gives the same; each flag of left combined
\* with middle is the OR of the two flags; and its prefixArgument is that
\* of left when left has a number, 0 included, and that of middle
\* otherwise.
C21_ModifiersMonoid ==
  operands.combined =>
    /\ operands.identityLeft = operands.left
    /\ operands.leftIdentity = operands.left
    /\ operands.leftFirst = operands.rightFirst
    /\ operands.leftMiddle.keepModifier =
         (operands.left.keepModifier \/ operands.middle.keepModifier)
    /\ operands.leftMiddle.hyperbolicModifier =
         (operands.left.hyperbolicModifier \/ operands.middle.hyperbolicModifier)
    /\ operands.leftMiddle.inverseModifier =
         (operands.left.inverseModifier \/ operands.middle.inverseModifier)
    /\ operands.leftMiddle.prefixArgument =
         (IF operands.left.prefixArgument # Undefined
          THEN operands.left.prefixArgument
          ELSE operands.middle.prefixArgument)

\* The left operand has the prefixArgument 0 and the middle one 4: the
\* product has 0, and the flags of both.
C21_Witness ==
  /\ operands.combined
  /\ operands.left.prefixArgument = Number(0)
  /\ operands.middle.prefixArgument = Number(4)
  /\ operands.left.keepModifier /\ ~operands.middle.keepModifier
  /\ ~operands.left.inverseModifier /\ operands.middle.inverseModifier
  /\ operands.leftMiddle.prefixArgument = Number(0)
  /\ operands.leftMiddle.keepModifier /\ operands.leftMiddle.inverseModifier

\* C22: in every reachable state getModifiers() of the composite delegate
\* returns the prefix argument of the current state of the prefix machine
\* (none in Default, 4 * k in Multiplier(k), -1 in NegativeInput, n in
\* Numerical(n)) together with the current values of the keep, hyperbolic
\* and inverse flags.
C22_GetModifiersReflectsState ==
  LET modifiers == delegates_getModifiers(Cur)
  IN /\ modifiers.prefixArgument =
          (CASE prefixState.tag = "Default" -> Undefined
             [] prefixState.tag = "Multiplier" -> Number(4 * prefixState.n)
             [] prefixState.tag = "NegativeInput" -> Number(-1)
             [] prefixState.tag = "Numerical" -> Number(prefixState.n))
     /\ modifiersToRustArgs(modifiers).argument = prefixArgument(prefixState)
     /\ modifiers.keepModifier = keepModifier
     /\ modifiers.hyperbolicModifier = hyperbolicModifier
     /\ modifiers.inverseModifier = inverseModifier

\* The machine is in Numerical(25) and the flags H and I are set, K is
\* not.
C22_Witness ==
  /\ prefixState = numericalState(25)
  /\ hyperbolicModifier /\ inverseModifier /\ ~keepModifier
  /\ delegates_getModifiers(Cur) =
       [prefixArgument |-> Number(25), keepModifier |-> FALSE,
        hyperbolicModifier |-> TRUE, inverseModifier |-> TRUE]

\* C23: resetModifiers() of the composite delegate resets every child.
\* From every reachable state the call leaves the prefix machine in
\* Default and the three flags false, so that getModifiers() yields the
\* identity modifiers; and so does every handler that has called it.
C23_ResetModifiersResetsAll ==
  [][/\ LET R == delegates_resetModifiers(Cur)
        IN /\ R.prefixState = DEFAULT_STATE
           /\ ~R.keepModifier /\ ~R.hyperbolicModifier /\ ~R.inverseModifier
           /\ delegates_getModifiers(R) = defaultModifiers
     /\ lastEvent'.out.resetIn # "none" =>
          /\ prefixState' = DEFAULT_STATE
          /\ ~keepModifier' /\ ~hyperbolicModifier' /\ ~inverseModifier'
          /\ delegates_getModifiers(Cur)' = defaultModifiers]_vars

\* The key + has sent its command with the argument 25 and the flags K
\* and H, and the reset after it has cleared them.
C23_Witness ==
  /\ lastEvent.out.resetIn # "none"
  /\ Len(lastEvent.out.sent) = 1
  /\ lastEvent.out.sent[1].opts =
       [argument |-> Number(25), keepModifier |-> TRUE,
        hyperbolicModifier |-> TRUE, inverseModifier |-> FALSE]
  /\ prefixState = DEFAULT_STATE
  /\ ~keepModifier /\ ~hyperbolicModifier /\ ~inverseModifier

\* C24: in the flags delegate K, H and I each toggle their own flag
\* (keep, hyperbolic, inverse), leave the other two as they were and are
\* answered BLOCK, so that the same key twice restores the flags; every
\* other key the delegate sees is passed on and changes no flag (a cell
\* the key fires afterwards may reset them).
C24_FlagKeysToggle ==
  [][(/\ lastEvent'.op = "key"
      /\ \E i \in 1..Len(lastEvent'.out.invoked) : lastEvent'.out.invoked[i] = "flags")
     => LET out == lastEvent'.out
            key == lastEvent'.key
            last == out.invoked[Len(out.invoked)]
            twice == ModifierFlagsDelegate_onKeyDown(
                       ModifierFlagsDelegate_onKeyDown(Cur, key), key)
        IN /\ key = "K" =>
                /\ keepModifier' = ~keepModifier
                /\ UNCHANGED <<hyperbolicModifier, inverseModifier>>
           /\ key = "H" =>
                /\ hyperbolicModifier' = ~hyperbolicModifier
                /\ UNCHANGED <<keepModifier, inverseModifier>>
           /\ key = "I" =>
                /\ inverseModifier' = ~inverseModifier
                /\ UNCHANGED <<keepModifier, hyperbolicModifier>>
           /\ key \in {"K", "H", "I"} =>
                /\ out.response = "BLOCK"
                /\ last = "flags"
                /\ UNCHANGED <<prefixState, activeGrid>>
           /\ key \notin {"K", "H", "I"} =>
                /\ last # "flags"
                /\ out.resetIn = "none" =>
                     UNCHANGED <<keepModifier, hyperbolicModifier, inverseModifier>>
           /\ twice.keepModifier = keepModifier
           /\ twice.hyperbolicModifier = hyperbolicModifier
           /\ twice.inverseModifier = inverseModifier]_vars

\* The key H has cleared the hyperbolic flag while K and I stay set.
C24_Witness ==
  /\ lastEvent.op = "key"
  /\ lastEvent.key = "H"
  /\ lastEvent.out.response = "BLOCK"
  /\ ~hyperbolicModifier
  /\ keepModifier /\ inverseModifier

\* C25: setActiveGrid(grid) changes the active grid only.  For every
\* reachable state and grid the call leaves the prefix state and the three
\* flags as they were, and a GotoButton fired by the ButtonGridManager
\* leads to its grid with the prefix state, the flags and the current
\* manager unchanged.
C25_SetActiveGridKeepsModifiers ==
  [][/\ \A grid \in Grids :
          ButtonGridManager_setActiveGrid(Cur, grid) = [Cur EXCEPT !.activeGrid = grid]
     /\ (/\ lastEvent'.out.firedCell # NoCell
         /\ CellKind(lastEvent'.out.firedCell) = "Goto"
         /\ lastEvent'.out.handler = "grid")
        => /\ activeGrid' = CellTarget(lastEvent'.out.firedCell)
           /\ UNCHANGED <<prefixState, keepModifier, hyperbolicModifier,
                          inverseModifier, currentManager>>
           /\ lastEvent'.out.resetIn = "none"
           /\ lastEvent'.out.notifications = <<>>
           /\ lastEvent'.out.sent = <<>>]_vars

\* The key v has led to the vector grid with the prefix argument 2 and
\* the flags K and I still set.
C25_Witness ==
  /\ lastEvent.op = "key"
  /\ lastEvent.key = "v"
  /\ lastEvent.out.firedCell = "gotoVector"
  /\ activeGrid = "vector"
  /\ prefixState = numericalState(2)
  /\ keepModifier /\ inverseModifier

\* C26, as stated: for every canonical key string s of the grammar
\* (optional prefixes C-, M-, s- in this order, then a base key name),
\* KeyInput.fromEmacsSyntax(s).toEmacsSyntax() equals s.
C26_RoundTripEveryString ==
  (/\ keyCall.call = "fromEmacsSyntax"
   /\ keyCall.input \in CanonicalStrings
   /\ keyCall.position = "printed")
  => keyCall.output = keyCall.input

\* C26, amended: fromEmacsSyntax throws on no canonical key string s, and
\* fromEmacsSyntax(s).toEmacsSyntax() is the normal form of s: Tab for C-i
\* and C-I, Enter for C-m and C-M, s with its letter lower-cased when s is
\* an upper-case letter with at least one prefix, and s itself in every
\* other case; the normal form is a canonical key string that the round
\* trip gives back unchanged.
C26_RoundTripNormalForm ==
  (keyCall.call = "fromEmacsSyntax" /\ keyCall.input \in CanonicalStrings)
  => /\ keyCall.position # "thrown"
     /\ keyCall.position = "printed" =>
          LET lower(name) ==
                CASE name = <<"I">> -> <<"i">>
                  [] name = <<"M">> -> <<"m">>
                  [] name = <<"X">> -> <<"x">>
                  [] OTHER -> name
              normalForm(modifiers, name) ==
                CASE modifiers = 1 /\ lower(name) = <<"i">> -> <<"T", "a", "b">>
                  [] modifiers = 1 /\ lower(name) = <<"m">> -> <<"E", "n", "t", "e", "r">>
                  [] modifiers # 0 /\ (modifiers # 1 \/ lower(name) \notin {<<"i">>, <<"m">>}) ->
                       GrammarPrefix(modifiers) \o lower(name)
                  [] OTHER -> name
          IN /\ \A modifiers \in 0..7, name \in KeyNames :
                  keyCall.input = GrammarPrefix(modifiers) \o name
                    => keyCall.output = normalForm(modifiers, name)
             /\ keyCall.output \in CanonicalStrings
             /\ toEmacsSyntax(fromEmacsSyntax(keyCall.output)) = keyCall.output

\* The string C-M-s-- has come back as it is.
C26_Witness ==
  /\ keyCall.call = "fromEmacsSyntax"
  /\ keyCall.position = "printed"
  /\ keyCall.input = <<"C", "-", "M", "-", "s", "-", "-">>
  /\ keyCall.object = [key |-> <<"-">>, modifiers |-> 7]
  /\ keyCall.output = keyCall.input

\* C27: new KeyInput(key, modifiers) normalizes: Ctrl alone with i or I
\* gives the key Tab without modifiers, Ctrl alone with m or M the key
\* Enter without modifiers; any other upper-case letter key with at least
\* one of CTRL, META, SUPER is lower-cased and keeps its modifiers; every
\* other combination is kept as given.
C27_NormalizedAtConstruction ==
  (keyCall.call = "new" /\ keyCall.position \in {"constructed", "printed"})
  => LET key == keyCall.key
         modifiers == keyCall.modifiers
         lower == CASE key = <<"I">> -> <<"i">>
                    [] key = <<"M">> -> <<"m">>
                    [] key = <<"X">> -> <<"x">>
                    [] OTHER -> key
     IN keyCall.object =
          (CASE modifiers = 1 /\ key \in {<<"i">>, <<"I">>} ->
                  [key |-> <<"T", "a", "b">>, modifiers |-> 0]
             [] modifiers = 1 /\ key \in {<<"m">>, <<"M">>} ->
                  [key |-> <<"E", "n", "t", "e", "r">>, modifiers |-> 0]
             [] modifiers # 0 /\ ~(modifiers = 1 /\ lower \in {<<"i">>, <<"m">>}) ->
                  [key |-> lower, modifiers |-> modifiers]
             [] OTHER -> [key |-> key, modifiers |-> modifiers])

\* new KeyInput("I", CTRL | META) has the key i and both modifiers.
C27_Witness ==
  /\ keyCall.call = "new"
  /\ keyCall.position = "constructed"
  /\ keyCall.key = <<"I">>
  /\ keyCall.modifiers = 3
  /\ keyCall.object = [key |-> <<"i">>, modifiers |-> 3]

\* C28, as stated: when an input flow is abandoned, by the user's
\* cancellation or by the backend's verdict on the typed value, no math
\* command is sent and the grid, the prefix-argument state and the flags
\* are those the button was fired with, no other handler having run since.
C28_AbandonRestoresFiredState ==
  [][(/\ \/ lastEvent'.op \in {"inputCancel", "storeNameCancel"}
         \/ lastEvent'.op = "storeValidateDone" /\ lastEvent'.outcome = "invalid"
      /\ ~tracked.flowDisturbed)
     => /\ lastEvent'.out.sent = <<>>
        /\ [activeGrid |-> activeGrid', prefixState |-> prefixState',
            keepModifier |-> keepModifier',
            hyperbolicModifier |-> hyperbolicModifier',
            inverseModifier |-> inverseModifier'] = tracked.flow]_vars

\* C28, amended: no step of an input flow up to its abandonment sends a
\* math command, and the abandonment ends with resetState(): the root
\* grid active, the prefix-argument state Default and the three flags
\* false, whatever the button was fired with.
C28_AbandonResets ==
  [][/\ lastEvent'.op \in {"storeStackSizeDone", "storeNameSubmit"}
          => lastEvent'.out.sent = <<>>
     /\ (\/ lastEvent'.op \in {"inputCancel", "storeNameCancel"}
         \/ lastEvent'.op = "storeValidateDone" /\ lastEvent'.outcome = "invalid")
          => /\ lastEvent'.out.sent = <<>>
             /\ lastEvent'.out.resetIn # "none"
             /\ activeGrid' = RootGrid
             /\ prefixState' = DEFAULT_STATE
             /\ ~keepModifier' /\ ~hyperbolicModifier' /\ ~inverseModifier']_vars

\* The backend has found the name typed into a VariableStoreButton's
\* prompt invalid; the button was fired in a subgrid with the prefix
\* argument 2, and the flow has ended at the root grid without it.
C28_Witness ==
  /\ lastEvent.op = "storeValidateDone"
  /\ lastEvent.outcome = "invalid"
  /\ lastEvent.out.resetIn = "subgrid"
  /\ lastEvent.out.notifications =
       <<[type |-> "prefix-arg-state-changed", oldState |-> numericalState(2),
          newState |-> DEFAULT_STATE]>>
  /\ lastEvent.out.sent = <<>>
  /\ activeGrid = RootGrid
  /\ prefixState = DEFAULT_STATE
  /\ inputFlow = "none"

\* C29: when the promise of a command is rejected, the grid, the
\* prefix-argument state and the flags are those the cell was fired with,
\* no other handler having run since: for the command of a DispatchButton,
\* for push_number of an InputButton and for store_var of a
\* VariableStoreButton.
C29_RejectionCommitsNothing ==
  [][LET after == [activeGrid |-> activeGrid', prefixState |-> prefixState',
                   keepModifier |-> keepModifier',
                   hyperbolicModifier |-> hyperbolicModifier',
                   inverseModifier |-> inverseModifier']
     IN /\ (/\ lastEvent'.op = "commandSettled"
             /\ lastEvent'.outcome = "rejected"
             /\ ~tracked.commandDisturbed)
            => after = tracked.command
        /\ (/\ lastEvent'.op \in {"inputFlowDone", "storeVarDone"}
             /\ lastEvent'.outcome = "rejected"
             /\ ~tracked.flowDisturbed)
            => after = tracked.flow]_vars

\* ------------------------------------------------------------------------
\* filtered(handler, condition)
\* ------------------------------------------------------------------------

\* A variant that asks the wrapped handler whatever the condition says.
filtered_onKeyDown_Always(handler, condition, input) ==
  [invoked |-> <<input>>, result |-> handler[input]]

\* filtered(handler, condition).onKeyDown(input): invoked lists the inputs
\* handler.onKeyDown was called with, result is the response the promise
\* resolves to.
filtered_onKeyDown(handler, condition, input) ==
  IF input \in condition
  THEN [invoked |-> <<input>>, result |-> handler[input]]
  ELSE [invoked |-> <<>>, result |-> "PASS"]

\* A key event reaches the filtered handler.
FilteredOnKeyDown(input) ==
  /\ LET call == filtered_onKeyDown(filterRun.handler, filterRun.condition, input)
     IN filterRun' = [filterRun EXCEPT !.input = input,
                                       !.invoked = call.invoked,
                                       !.result = call.result]
  /\ UNCHANGED <<frontendVars, lruVars, seqVars, operands, keyCall, keyGrid, inputBox>>

InitFiltered ==
  /\ FrontendInit
  /\ LruInit(1)
  /\ SeqInit(<<>>)
  /\ OperandsInit(defaultModifiers, defaultModifiers, defaultModifiers)
  /\ KeyCallInit("none", <<>>, <<>>, Modifier_NONE)
  /\ \E handler \in [{"K", "2", "Escape"} -> KeyResponses],
        condition \in SUBSET {"K", "2", "Escape"} :
       FilterInit(handler, condition)
  /\ KeyGridInit(<<>>)

SpecFiltered ==
  InitFiltered /\ [][\E input \in {"K", "2", "Escape"} : FilteredOnKeyDown(input)]_vars

\* C30: filtered(handler, condition).onKeyDown(input) calls
\* handler.onKeyDown, once and with input, exactly when condition(input)
\* holds, and then gives the handler's own response; when the condition
\* does not hold the handler is not called and the response is PASS.
C30_FilteredInvokesWhenConditionHolds ==
  filterRun.input # ""
  => IF filterRun.input \in filterRun.condition
     THEN /\ filterRun.invoked = <<filterRun.input>>
          /\ filterRun.result = filterRun.handler[filterRun.input]
     ELSE /\ filterRun.invoked = <<>>
          /\ filterRun.result = "PASS"

\* The condition holds of K and not of 2; the handler blocks both.  The
\* filtered handler has been given 2: the wrapped handler was not asked
\* and the response is PASS.
C30_Witness ==
  /\ filterRun.condition = {"K"}
  /\ filterRun.handler["K"] = "BLOCK"
  /\ filterRun.handler["2"] = "BLOCK"
  /\ filterRun.input = "2"
  /\ filterRun.invoked = <<>>
  /\ filterRun.result = "PASS"

\* ------------------------------------------------------------------------
\* ButtonGrid.getKeyMappingTable
\* ------------------------------------------------------------------------

\* A variant whose loop keeps the first cell of a shortcut.
ButtonGrid_getKeyMappingTable_FirstWins(g) ==
  IF ~g.buttonsByKey.null
  THEN [g EXCEPT !.calls = @ + 1, !.returned = g.buttonsByKey]
  ELSE LET width == IF g.rows = <<>> THEN 0 ELSE Len(g.rows[1])
           count == Len(g.rows) * width
           cell(k) == <<((k - 1) \div width) + 1, ((k - 1) % width) + 1>>
           shortcut(k) == g.rows[cell(k)[1]][cell(k)[2]]
           loop[k \in 0..count] ==
             IF k = 0 THEN [cells |-> <<>>, warnings |-> <<>>]
             ELSE IF shortcut(k) = "" THEN loop[k - 1]
             ELSE IF shortcut(k) \in DOMAIN loop[k - 1].cells
             THEN [loop[k - 1] EXCEPT !.warnings = Append(@, shortcut(k))]
             ELSE [loop[k - 1] EXCEPT
                     !.cells = [s \in DOMAIN @ \cup {shortcut(k)} |->
                                  IF s = shortcut(k) THEN cell(k) ELSE @[s]]]
           built == [null |-> FALSE, table |-> g.tables + 1,
                     cells |-> loop[count].cells]
       IN [g EXCEPT !.calls = @ + 1, !.tables = @ + 1,
                    !.buttonsByKey = built, !.returned = built,
                    !.warnings = loop[count].warnings]

\* ButtonGrid.getKeyMappingTable: the table kept in buttonsByKey, built
\* by the first call in one pass over the rows; a shortcut met again is
\* logged and assigned again.
ButtonGrid_getKeyMappingTable(g) ==
  IF ~g.buttonsByKey.null
  THEN [g EXCEPT !.calls = @ + 1, !.returned = g.buttonsByKey]
  ELSE LET width == IF g.rows = <<>> THEN 0 ELSE Len(g.rows[1])
           count == Len(g.rows) * width
           cell(k) == <<((k - 1) \div width) + 1, ((k - 1) % width) + 1>>
           shortcut(k) == g.rows[cell(k)[1]][cell(k)[2]]
           loop[k \in 0..count] ==
             IF k = 0 THEN [cells |-> <<>>, warnings |-> <<>>]
             ELSE IF shortcut(k) = "" THEN loop[k - 1]
             ELSE [cells |-> [s \in DOMAIN loop[k - 1].cells \cup {shortcut(k)} |->
                                IF s = shortcut(k) THEN cell(k)
                                ELSE loop[k - 1].cells[s]],
                   warnings |->
                     IF shortcut(k) \in DOMAIN loop[k - 1].cells
                     THEN Append(loop[k - 1].warnings, shortcut(k))
                     ELSE loop[k - 1].warnings]
           built == [null |-> FALSE, table |-> g.tables + 1,
                     cells |-> loop[count].cells]
       IN [g EXCEPT !.calls = @ + 1, !.tables = @ + 1,
                    !.buttonsByKey = built, !.returned = built,
                    !.warnings = loop[count].warnings]

\* grid.getKeyMappingTable() is called.
GetKeyMappingTable ==
  /\ keyGrid.calls < MaxCalls
  /\ keyGrid' = ButtonGrid_getKeyMappingTable(keyGrid)
  /\ UNCHANGED <<frontendVars, lruVars, seqVars, operands, keyCall, filterRun, inputBox>>

\* Grids of two rows of two cells over two shortcuts and null.
InitKeyGrid ==
  /\ FrontendInit
  /\ LruInit(1)
  /\ SeqInit(<<>>)
  /\ OperandsInit(defaultModifiers, defaultModifiers, defaultModifiers)
  /\ KeyCallInit("none", <<>>, <<>>, Modifier_NONE)
  /\ FilterInit([input \in {} |-> "PASS"], {})
  /\ \E rows \in [1..2 -> [1..2 -> {"", "a", "b"}]] : KeyGridInit(rows)

SpecKeyGrid == InitKeyGrid /\ [][GetKeyMappingTable]_vars

\* C31: once getKeyMappingTable has been called, whatever shortcuts the
\* cells share, one table has been made and every call has returned it;
\* the table holds exactly the shortcuts of the cells, each with the last
\* cell in row-major order that carries it.
C31_LastDuplicateWinsBuiltOnce ==
  keyGrid.calls > 0
  => /\ keyGrid.tables = 1
     /\ ~keyGrid.returned.null
     /\ keyGrid.returned = keyGrid.buttonsByKey
     /\ keyGrid.returned.table = 1
     /\ LET carriers(s) ==
              {rc \in (1..2) \X (1..2) : keyGrid.rows[rc[1]][rc[2]] = s}
            later(a, b) == a[1] > b[1] \/ (a[1] = b[1] /\ a[2] >= b[2])
        IN /\ DOMAIN keyGrid.returned.cells =
                {s \in {"a", "b"} : carriers(s) # {}}
           /\ \A s \in DOMAIN keyGrid.returned.cells :
                /\ keyGrid.returned.cells[s] \in carriers(s)
                /\ \A rc \in carriers(s) : later(keyGrid.returned.cells[s], rc)

\* A grid whose first row carries the shortcut a twice and whose second
\* row carries it once more has been asked for its table twice: the
\* table was built once, with two warnings, and a goes to the cell of the
\* second row.
C31_Witness ==
  /\ keyGrid.rows = <<<<"a", "a">>, <<"b", "a">>>>
  /\ keyGrid.calls = 2
  /\ keyGrid.tables = 1
  /\ keyGrid.warnings = <<"a", "a">>
  /\ keyGrid.returned.cells["a"] = <<2, 2>>
  /\ keyGrid.returned.cells["b"] = <<2, 1>>

\* C32: new LruCache(maxCacheSize) throws, and leaves no cache, exactly
\* when maxCacheSize is below 1; the cache of any other maxCacheSize
\* starts empty with that capacity, and no get or set changes it.
C32_CapacityBelowOneThrows ==
  /\ [](lruEvent.op = "new"
         => /\ cache.thrown <=> lruEvent.value < 1
            /\ cache.thrown => DOMAIN cache.nodes = {}
            /\ ~cache.thrown => /\ cache.maxCacheSize = lruEvent.value
                                /\ DOMAIN cache.mapping = {})
  /\ [][/\ ~cache.thrown
         /\ ~cache'.thrown
         /\ cache'.maxCacheSize = cache.maxCacheSize]_vars

\* new LruCache(0) has thrown.
C32_Witness ==
  /\ lruEvent.op = "new"
  /\ lruEvent.value = 0
  /\ cache.thrown

\* C33: a key that the FreeformInputMethod of the focused input box answers
\* with SOFT_BLOCK is kept from the rest of the frontend: for a key typed
\* into the box of the variable name only the input box is invoked (not
\* the undo manager, not the button grid, not the modifier delegates), no
\* undo action and no command goes out, no cell is activated, and the
\* prefix-argument state, the flags and the active grid stay as they were.
C33_SoftBlockSuppressesKey ==
  [][(lastEvent'.op = "key" /\ inputFlow = "storeName") =>
       /\ lastEvent'.out.invoked = <<"inputBox">>
       /\ lastEvent'.out.undo = <<>>
       /\ lastEvent'.out.sent = <<>>
       /\ lastEvent'.out.activated = NoCell
       /\ prefixState' = prefixState
       /\ keepModifier' = keepModifier
       /\ hyperbolicModifier' = hyperbolicModifier
       /\ inverseModifier' = inverseModifier
       /\ activeGrid' = activeGrid]_vars

C35_EveryActivationIntercepted ==
  [][(/\ lastEvent'.op \in {"key", "click"}
      /\ currentManager.kind = "sub"
      /\ \/ lastEvent'.out.activated # NoCell
         \/ lastEvent'.out.firedCell # NoCell)
     => /\ lastEvent'.out.handler = "sub"
        /\ lastEvent'.out.behavior \in {"subcommand", "invalid", "pass"}
        /\ currentManager' # currentManager
        /\ ~lastEvent'.out.thrown]_vars

\* C36: the command sent at the end of a fire-and-forget input flow
\* carries the modifiers that were in effect when its button was fired,
\* whatever other handlers ran while the flow waited for the backend or for
\* the user: store_var goes out with the prefix argument and the flags of
\* the state in which the VariableStoreButton was fired.
C36_FlowCommandCarriesModifiersAtFire ==
  [][(lastEvent'.op = "storeValidateDone" /\ lastEvent'.out.sent # <<>>)
     => lastEvent'.out.sent =
          <<[commandName |-> "store_var", args |-> <<"variableName">>,
             opts |-> modifiersToRustArgs(
                        [prefixArgument |-> prefixArgument(tracked.flow.prefixState),
                         keepModifier |-> tracked.flow.keepModifier,
                         hyperbolicModifier |-> tracked.flow.hyperbolicModifier,
                         inverseModifier |-> tracked.flow.inverseModifier])]>>]_vars

\* ------------------------------------------------------------------------
\* input_box.ts, input_box/numerical_input.ts: the sessions of the input
\* box and the microtasks of a key typed into it
\* ------------------------------------------------------------------------

\* InputBoxManager.show(inputMethod, initialInput): a new promise, whose
\* resolve function goes to a new ConcreteSession that replaces
\* this.inputSession; the box is made visible with the initial input.  The
\* caller, numericalInputToStack, awaits the promise.
InputBoxManager_show(b, initialInput) ==
  [b EXCEPT !.futures = Append(@, [state |-> "pending", value |-> <<>>]),
            !.flows = Append(@, "awaiting"),
            !.inputSession = Len(b.futures) + 1,
            !.showing = TRUE,
            !.text = initialInput]

\* ConcreteSession.submit and cancel on this.inputSession: resolveFunc is
\* called with the text or with undefined.  Session 0 ignores the call and
\* a settled promise stays as it is; a promise that gets settled queues
\* the reaction show has attached to it with then.
ConcreteSession_resolve(b, state) ==
  LET i == b.inputSession
  IN IF i = 0 \/ b.futures[i].state # "pending" THEN b
     ELSE [b EXCEPT !.futures[i] =
                      [state |-> state,
                       value |-> IF state = "text" THEN b.text ELSE <<>>],
                    !.microtasks =
                      Append(@, [job |-> "then", future |-> i, index |-> 0,
                                 response |-> "NONE", key |-> ""])]

\* A variant whose shouldAutoSubmit answers false for every key.
NumericalInputMethod_onKeyDown_NeverAutoSubmit(b, key) ==
  CASE key = "Escape" ->
         [box |-> ConcreteSession_resolve(b, "undefined"), response |-> "BLOCK"]
    [] key = "Enter" ->
         [box |-> ConcreteSession_resolve(b, "text"), response |-> "BLOCK"]
    [] OTHER -> [box |-> b, response |-> "BLOCK"]

\* NumericalInputMethod.onKeyDown(input, session): Escape cancels and
\* Enter submits, both answered BLOCK; a key for which shouldAutoSubmit
\* holds (*, / and ^, and + and - unless the text ends with e) submits and
\* is answered PASS; any other key is answered BLOCK.
NumericalInputMethod_onKeyDown(b, key) ==
  LET shouldAutoSubmit ==
        \/ key \in {"*", "/", "^"}
        \/ /\ key \in {"+", "-"}
           /\ ~(b.text # <<>> /\ b.text[Len(b.text)] = "e")
  IN CASE key = "Escape" ->
            [box |-> ConcreteSession_resolve(b, "undefined"), response |-> "BLOCK"]
       [] key = "Enter" ->
            [box |-> ConcreteSession_resolve(b, "text"), response |-> "BLOCK"]
       [] shouldAutoSubmit ->
            [box |-> ConcreteSession_resolve(b, "text"), response |-> "PASS"]
       [] OTHER -> [box |-> b, response |-> "BLOCK"]

\* numericalInputToStack(manager, initialInput) is called, by an
\* InputButton or by a digit the main grid gets: it calls show and awaits
\* the promise.  Nothing keeps the call from coming while an earlier
\* session is pending.
NumericalInputToStack(initialInput) ==
  /\ inputBox.microtasks = <<>>
  /\ Len(inputBox.futures) < MaxSessions
  /\ inputBox' = InputBoxManager_show(inputBox, initialInput)
  /\ UNCHANGED <<frontendVars, lruVars, seqVars, pureVars>>

\* A key is typed into the showing box, which has the focus: the part of
\* UiManager.dispatchOnKey that runs before the first microtask.
\* sequential calls the filtered input manager, whose condition holds;
\* InputBoxManager.onKeyDown calls the input method, which runs to its end,
\* and awaits its promise.  A key the method absorbs goes into the text.
BoxKeyDown(key) ==
  /\ inputBox.showing
  /\ inputBox.microtasks = <<>>
  /\ LET m == NumericalInputMethod_onKeyDown(inputBox, key)
         absorbed == m.response = "BLOCK" /\ key \notin {"Escape", "Enter"}
     IN /\ absorbed => Len(inputBox.text) < MaxText
        /\ inputBox' =
             [m.box EXCEPT
                !.event = [key |-> key, text |-> inputBox.text,
                           session |-> inputBox.inputSession,
                           response |-> m.response],
                !.issued = <<>>,
                !.text = IF absorbed THEN Append(@, key) ELSE @,
                !.microtasks =
                  Append(@, [job |-> "manager", future |-> 0, index |-> 0,
                             response |-> m.response, key |-> key])]
  /\ UNCHANGED <<frontendVars, lruVars, seqVars, pureVars>>

\* InputBoxManager.onFocusOut for an input method that does not persist
\* when unfocused: hide() and this.inputSession.cancel().
FocusOut ==
  /\ inputBox.showing
  /\ inputBox.microtasks = <<>>
  /\ inputBox' =
       ConcreteSession_resolve(
         [inputBox EXCEPT !.showing = FALSE, !.text = <<>>, !.issued = <<>>,
                          !.event = [key |-> "focusout", text |-> inputBox.text,
                                     session |-> inputBox.inputSession,
                                     response |-> "NONE"]],
         "undefined")
  /\ UNCHANGED <<frontendVars, lruVars, seqVars, pureVars>>

\* The event loop runs the first microtask.
\*   then: the reaction of show hides the box and fulfils the promise that
\*     numericalInputToStack awaits.
\*   flow: numericalInputToStack goes on after its await and, given a text
\*     that is not empty, calls TAURI.runMathCommand('push_number', [text]).
\*   manager: InputBoxManager.onKeyDown returns what the input method
\*     answered, and sequential goes on after its await of handler 1.
\*   sequential: the loop of UiManager.keyHandler after the await of the
\*     handler index: it returns on BLOCK, and otherwise calls the undo
\*     manager (after handler 1) or the button grid (after handler 2), whose
\*     onKeyDown calls delegates(...).onKeyDown, a sequential that awaits
\*     the prefix delegate.
\*   delegates: the loop of delegates(...).onKeyDown after the await of the
\*     delegate index.
\*   grid: ButtonGridManager.onKeyDown after its await of the delegates: on
\*     PASS the button of the key is fired, and DispatchButton.fire reaches
\*     TAURI.runMathCommand before any further await.
\* The frontend is in the state of its construction, which the keys given
\* to the box here leave as it is.
RunMicrotask ==
  /\ inputBox.microtasks # <<>>
  /\ LET job == Head(inputBox.microtasks)
         b == [inputBox EXCEPT !.microtasks = Tail(@)]
         Job(name, index, response) ==
           [job |-> name, future |-> 0, index |-> index,
            response |-> response, key |-> job.key]
         commands(sent) ==
           [k \in 1..Len(sent) |->
              [commandName |-> sent[k].commandName, args |-> sent[k].args]]
     IN inputBox' =
          CASE job.job = "then" ->
                 [b EXCEPT !.showing = FALSE, !.text = <<>>,
                           !.microtasks =
                             Append(@, [job |-> "flow", future |-> job.future,
                                        index |-> 0, response |-> "NONE",
                                        key |-> ""])]
            [] job.job = "flow" ->
                 LET text == b.futures[job.future].value
                 IN [b EXCEPT !.flows[job.future] = "done",
                              !.issued =
                                IF text # <<>>
                                THEN Append(@, [commandName |-> "push_number",
                                                args |-> <<text>>])
                                ELSE @]
            [] job.job = "manager" ->
                 [b EXCEPT !.microtasks = Append(@, Job("sequential", 1, job.response))]
            [] job.job = "sequential" ->
                 IF job.response = "BLOCK" \/ job.index = 3 THEN b
                 ELSE IF job.index = 1
                 THEN [b EXCEPT !.microtasks =
                         Append(@, Job("sequential", 2,
                                       UndoManager_onKeyDown(Cur, job.key).out.response))]
                 ELSE [b EXCEPT !.microtasks =
                         Append(@, Job("delegates", 1,
                                       PrefixArgumentDelegate_onKeyDown(Cur, job.key).out.response))]
            [] job.job = "delegates" ->
                 IF job.response = "BLOCK"
                 THEN [b EXCEPT !.microtasks = Append(@, Job("grid", 0, "BLOCK"))]
                 ELSE IF job.index = 1
                 THEN [b EXCEPT !.microtasks =
                         Append(@, Job("delegates", 2,
                                       ModifierFlagsDelegate_onKeyDown(Cur, job.key).out.response))]
                 ELSE [b EXCEPT !.microtasks = Append(@, Job("grid", 0, "PASS"))]
            [] job.job = "grid" ->
                 IF job.response = "BLOCK"
                 THEN [b EXCEPT !.microtasks = Append(@, Job("sequential", 3, "BLOCK"))]
                 ELSE LET G == ButtonGridManager_onKeyDown(Cur, job.key)
                      IN [b EXCEPT !.issued = @ \o commands(G.out.sent),
                                   !.microtasks =
                                     Append(@, Job("sequential", 3, G.out.response))]
  /\ UNCHANGED <<frontendVars, lruVars, seqVars, pureVars>>

\* The user ends the session of the showing box.
SessionEnd ==
  \/ \E key \in {"Enter", "Escape"} : BoxKeyDown(key)
  \/ FocusOut

\* The keys typed into the numerical input, and the microtasks of each.
SpecInputBox ==
  /\ Init
  /\ [][\/ \E initialInput \in {<<>>, <<"1">>} : NumericalInputToStack(initialInput)
        \/ \E key \in {"1", "e", "+", "*"} : BoxKeyDown(key)
        \/ SessionEnd
        \/ RunMicrotask]_vars

\* The sessions of the box with one key to type: the event loop runs
\* every microtask it has queued, and the user ends the session of a box
\* that stays showing.
SpecInputBoxLive ==
  /\ Init
  /\ [][\/ NumericalInputToStack(<<>>)
        \/ BoxKeyDown("1")
        \/ SessionEnd
        \/ RunMicrotask]_vars
  /\ WF_vars(RunMicrotask)
  /\ WF_vars(SessionEnd)

\* C37: every promise returned by InputBoxManager.show is resolved in the
\* end, with the text or with undefined, given that the user submits,
\* cancels or unfocuses the box, also when show is called again while an
\* earlier session is pending; and the flow that awaits the promise then
\* goes on to its end.
C37_EveryShowResolves ==
  \A i \in 1..(MaxSessions + 1) :
    (Len(inputBox.futures) >= i)
      ~> (/\ Len(inputBox.futures) >= i
          /\ inputBox.futures[i].state # "pending"
          /\ inputBox.flows[i] = "done")

\* C38: a key typed into the numerical input for which shouldAutoSubmit
\* holds (*, and + unless the text ends with e) submits the session with
\* the text of the box and is answered PASS by the box; when the text is
\* not empty, push_number with that text has been issued before any
\* command the button grid issues for the same key event, and has been
\* issued once the microtasks of the event have run.
C38_PushNumberBeforeOperator ==
  LET ev == inputBox.event
      issued == inputBox.issued
      pushes == {i \in 1..Len(issued) :
                   issued[i] = [commandName |-> "push_number", args |-> <<ev.text>>]}
  IN (\/ ev.key = "*"
      \/ ev.key = "+" /\ ~(ev.text # <<>> /\ ev.text[Len(ev.text)] = "e"))
     => /\ ev.response = "PASS"
        /\ inputBox.futures[ev.session] = [state |-> "text", value |-> ev.text]
        /\ ev.text # <<>> =>
             /\ \A j \in 1..Len(issued) :
                  issued[j].commandName # "push_number" => \E i \in pushes : i < j
             /\ inputBox.microtasks = <<>> => pushes # {}

\* C38 happens: * typed after the text 1 has sent push_number with 1 and
\* then the command of the button of *.
C38_Witness ==
  /\ inputBox.event.key = "*"
  /\ inputBox.event.text = <<"1">>
  /\ inputBox.issued =
       <<[commandName |-> "push_number", args |-> <<(<<"1">>)>>],
         [commandName |-> "*", args |-> <<>>]>>

\* C39: whatever calls of get and set came before, overwrites included,
\* get returns what an LRU map of the same capacity returns: the value of
\* the last set of the key when the map still holds the key, and undefined
\* when the key was never set or has been evicted as the least recently
\* used.
C39_GetAgreesWithReference ==
  [][lruEvent'.op = "get"
     => LET hits == {i \in 1..Len(reference) : reference[i].key = lruEvent'.key}
        IN lruEvent'.result =
             (IF hits = {} THEN LruUndefined
              ELSE reference[CHOOSE i \in hits : TRUE].value)]_vars

====
